---------------------------- MODULE Spec2Model ----------------------------
(***************************************************************************)
(* Model of the Keccak sponge (src/ref/fips202.c) and of the polynomial    *)
(* vector layer (src/unnamed/part_000: params.h followed by polyvec.c) of  *)
(* the Dilithium reference code.                                           *)
(*                                                                         *)
(* A 64-bit lane (uint64_t) is the set of its set bit positions, a subset  *)
(* of 0..63: XOR is the symmetric difference, AND the intersection, and    *)
(* (~b) & c is c \ b.  The state array uint64_t s[25] is a tuple of 25     *)
(* lanes; the C lane s[k] is the tuple element s[k + 1].  A byte is an     *)
(* integer in 0..255 and a byte string a sequence of bytes.                *)
(***************************************************************************)
EXTENDS Integers, Sequences, FiniteSets, TLC

(***************************************************************************)
(* Keccak-f[1600]                                                          *)
(***************************************************************************)
NROUNDS == 24

SHAKE128_RATE == 168
SHAKE256_RATE == 136
SHA3_256_RATE == 136
SHA3_512_RATE == 72

\* a ^ b on lanes
XOR(a, b) == (a \ b) \cup (b \ a)

\* Where bit i of a lane goes when the lane is rotated left by offset
RotTab == [offset \in 0..63 |-> [i \in 0..63 |-> (i + offset) % 64]]

\* #define ROL(a, offset) ((a << offset) ^ (a >> (64-offset)))
\* A rotation to the right instead of the left
ROR(a, offset) == LET f == RotTab[(64 - offset) % 64] IN {f[i] : i \in a}

ROL(a, offset) == LET f == RotTab[offset] IN {f[i] : i \in a}

\* The 24 round constants, each as the set of its set bits.
KeccakF_RoundConstants ==
  << {0},                      \* 0x0000000000000001
     {1, 7, 15},               \* 0x0000000000008082
     {1, 3, 7, 15, 63},        \* 0x800000000000808a
     {15, 31, 63},             \* 0x8000000080008000
     {0, 1, 3, 7, 15},         \* 0x000000000000808b
     {0, 31},                  \* 0x0000000080000001
     {0, 7, 15, 31, 63},       \* 0x8000000080008081
     {0, 3, 15, 63},           \* 0x8000000000008009
     {1, 3, 7},                \* 0x000000000000008a
     {3, 7},                   \* 0x0000000000000088
     {0, 3, 15, 31},           \* 0x0000000080008009
     {1, 3, 31},               \* 0x000000008000000a
     {0, 1, 3, 7, 15, 31},     \* 0x000000008000808b
     {0, 1, 3, 7, 63},         \* 0x800000000000008b
     {0, 3, 7, 15, 63},        \* 0x8000000000008089
     {0, 1, 15, 63},           \* 0x8000000000008003
     {1, 15, 63},              \* 0x8000000000008002
     {7, 63},                  \* 0x8000000000000080
     {1, 3, 15},               \* 0x000000000000800a
     {1, 3, 31, 63},           \* 0x800000008000000a
     {0, 7, 15, 31, 63},       \* 0x8000000080008081
     {7, 15, 63},              \* 0x8000000000008080
     {0, 31},                  \* 0x0000000080000001
     {3, 15, 31, 63} >>        \* 0x8000000080008008

\* chi on one plane: Eba = BCa ^ ((~BCe) & BCi), Ebe = BCe ^ ((~BCi) & BCo), ...
Chi(BC) ==
  << XOR(BC[1], BC[3] \ BC[2]),
     XOR(BC[2], BC[4] \ BC[3]),
     XOR(BC[3], BC[5] \ BC[4]),
     XOR(BC[4], BC[1] \ BC[5]),
     XOR(BC[5], BC[2] \ BC[1]) >>

\* One round: theta, then rho and pi (the lane taken for each BC and its
\* rotation offset, as the code lists them), chi, and iota on lane 0.
KeccakRound(A, round) ==
  LET \* BCa..BCu: the column parities
      Parity == << XOR(XOR(XOR(XOR(A[1], A[6]), A[11]), A[16]), A[21]),
                   XOR(XOR(XOR(XOR(A[2], A[7]), A[12]), A[17]), A[22]),
                   XOR(XOR(XOR(XOR(A[3], A[8]), A[13]), A[18]), A[23]),
                   XOR(XOR(XOR(XOR(A[4], A[9]), A[14]), A[19]), A[24]),
                   XOR(XOR(XOR(XOR(A[5], A[10]), A[15]), A[20]), A[25]) >>
      \* Da..Du from the parities BC
      Theta(BC) == << XOR(BC[5], ROL(BC[2], 1)),
                      XOR(BC[1], ROL(BC[3], 1)),
                      XOR(BC[2], ROL(BC[4], 1)),
                      XOR(BC[3], ROL(BC[5], 1)),
                      XOR(BC[4], ROL(BC[1], 1)) >>
      \* the planes Eb, Eg, Ek, Em, Es before iota, from D
      Planes(D) ==
        LET T(k) == XOR(A[k + 1], D[(k % 5) + 1])
        IN  << Chi(<< T(0), ROL(T(6), 44), ROL(T(12), 43), ROL(T(18), 21), ROL(T(24), 14) >>),
               Chi(<< ROL(T(3), 28), ROL(T(9), 20), ROL(T(10), 3), ROL(T(16), 45), ROL(T(22), 61) >>),
               Chi(<< ROL(T(1), 1), ROL(T(7), 6), ROL(T(13), 25), ROL(T(19), 8), ROL(T(20), 18) >>),
               Chi(<< ROL(T(4), 27), ROL(T(5), 36), ROL(T(11), 10), ROL(T(17), 15), ROL(T(23), 56) >>),
               Chi(<< ROL(T(2), 62), ROL(T(8), 55), ROL(T(14), 39), ROL(T(15), 41), ROL(T(21), 2) >>) >>
      Iota(E) == << XOR(E[1][1], KeccakF_RoundConstants[round + 1]),
                    E[1][2], E[1][3], E[1][4], E[1][5] >>
                 \o E[2] \o E[3] \o E[4] \o E[5]
  IN  Iota(Planes(Theta(Parity)))

\* The round loop.  Each round's state is computed (Len(E) = 25 holds of
\* every state) before the next round starts, as in the sequential C loop.
RECURSIVE KeccakRounds(_, _)
KeccakRounds(A, round) ==
  IF round = NROUNDS THEN A
  ELSE LET Go(E) == IF Len(E) = 25 THEN KeccakRounds(E, round + 1) ELSE A
       IN  Go(KeccakRound(A, round))

KeccakF1600_StatePermute(state) == KeccakRounds(state, 0)

(***************************************************************************)
(* Bytes and lanes                                                         *)
(***************************************************************************)
\* (uint64_t)b << 8*j as a lane, for a byte b and 0 <= j < 8
ShiftByte(b, j) == {8 * j + k : k \in {k \in 0..7 : (b \div (2 ^ k)) % 2 = 1}}

\* (uint8_t)(u >> 8*j): byte j of lane u
LaneByte(u, j) ==
    (IF (8 * j)     \in u THEN 1   ELSE 0) + (IF (8 * j + 1) \in u THEN 2   ELSE 0)
  + (IF (8 * j + 2) \in u THEN 4   ELSE 0) + (IF (8 * j + 3) \in u THEN 8   ELSE 0)
  + (IF (8 * j + 4) \in u THEN 16  ELSE 0) + (IF (8 * j + 5) \in u THEN 32  ELSE 0)
  + (IF (8 * j + 6) \in u THEN 64  ELSE 0) + (IF (8 * j + 7) \in u THEN 128 ELSE 0)

\* load64: r |= (uint64_t)x[i] << 8*i for i = 0..7
load64(x) == UNION {ShiftByte(x[i + 1], i) : i \in 0..7}

\* store64: x[i] = u >> 8*i for i = 0..7
store64(u) == [i \in 1..8 |-> LaneByte(u, i - 1)]

\* keccak_init: all 25 lanes zero
keccak_init == [k \in 1..25 |-> {}]


\* << f[1], ..., f[25] >>: a state array given lane by lane
Lanes(f) ==
  << f[1],  f[2],  f[3],  f[4],  f[5],  f[6],  f[7],  f[8],  f[9],  f[10],
     f[11], f[12], f[13], f[14], f[15], f[16], f[17], f[18], f[19], f[20],
     f[21], f[22], f[23], f[24], f[25] >>

\* for(i=from;i<to;i++) s[i/8] ^= (uint64_t)*in++ << 8*(i%8);
\* where in points at byte k (counted from 0) of the sequence in
XorBytes(s, from, to, in, k) ==
  LET Lo(l) == IF from > 8 * (l - 1) THEN from ELSE 8 * (l - 1)
      Hi(l) == IF to - 1 < 8 * (l - 1) + 7 THEN to - 1 ELSE 8 * (l - 1) + 7
      \* the bytes i in from..to-1 with i/8 = l-1
      F(l) == IF Lo(l) > Hi(l) THEN s[l]
              ELSE XOR(s[l], UNION {ShiftByte(in[k + (i - from) + 1], i % 8) :
                                    i \in Lo(l)..Hi(l)})
  IN  Lanes([l \in 1..25 |-> F(l)])

\* the lane indices i/8 that loop uses
ByteLanes(from, to) == {i \div 8 : i \in from..(to - 1)}

(***************************************************************************)
(* The sponge functions.  Each returns a record: the state array s, the    *)
(* returned position pos, the bytes written to the output buffer out, the  *)
(* number of calls of KeccakF1600_StatePermute nperm, and the set idx of   *)
(* the indices used to subscript s.  They are modelled for pos <= r, the   *)
(* only cursors a state used with one rate has (for pos > r the unsigned   *)
(* r-pos of the code wraps).                                               *)
(***************************************************************************)
\* A variant of the absorb loop that permutes only when a byte beyond the
\* block arrives, so that the cursor may rest at r
RECURSIVE keccak_absorb_loop_lazy(_, _, _, _, _, _, _)
keccak_absorb_loop_lazy(s, pos, r, in, k, np, idx) ==
  IF pos + (Len(in) - k) > r
  THEN keccak_absorb_loop_lazy(KeccakF1600_StatePermute(XorBytes(s, pos, r, in, k)),
                               0, r, in, k + (r - pos), np + 1,
                               idx \cup ByteLanes(pos, r))
  ELSE [s     |-> XorBytes(s, pos, pos + (Len(in) - k), in, k),
        pos   |-> pos + (Len(in) - k),
        out   |-> << >>,
        nperm |-> np,
        idx   |-> idx \cup ByteLanes(pos, pos + (Len(in) - k))]

RECURSIVE keccak_absorb_loop(_, _, _, _, _, _, _)
keccak_absorb_loop(s, pos, r, in, k, np, idx) ==
  IF pos + (Len(in) - k) >= r
  THEN keccak_absorb_loop(KeccakF1600_StatePermute(XorBytes(s, pos, r, in, k)),
                          0, r, in, k + (r - pos), np + 1,
                          idx \cup ByteLanes(pos, r))
  ELSE [s     |-> XorBytes(s, pos, pos + (Len(in) - k), in, k),
        pos   |-> pos + (Len(in) - k),
        out   |-> << >>,
        nperm |-> np,
        idx   |-> idx \cup ByteLanes(pos, pos + (Len(in) - k))]

keccak_absorb(s, pos, r, in) == keccak_absorb_loop(s, pos, r, in, 0, 0, {})

\* A variant of keccak_finalize that sets bit 63 of lane r/8-1 (|=) instead
\* of flipping it (^=)
keccak_finalize_or(s, pos, r, p) ==
  LET s1 == [s EXCEPT ![(pos \div 8) + 1] = XOR(@, ShiftByte(p, pos % 8))]
  IN  [s     |-> [s1 EXCEPT ![(r \div 8 - 1) + 1] = @ \cup {63}],
       pos   |-> pos,
       out   |-> << >>,
       nperm |-> 0,
       idx   |-> {pos \div 8, r \div 8 - 1}]

\* s[pos/8] ^= (uint64_t)p << 8*(pos%8);  s[r/8-1] ^= 1ULL << 63;
keccak_finalize(s, pos, r, p) ==
  LET s1 == [s EXCEPT ![(pos \div 8) + 1] = XOR(@, ShiftByte(p, pos % 8))]
  IN  [s     |-> [s1 EXCEPT ![(r \div 8 - 1) + 1] = XOR(@, {63})],
       pos   |-> pos,
       out   |-> << >>,
       nperm |-> 0,
       idx   |-> {pos \div 8, r \div 8 - 1}]

Min(a, b) == IF a < b THEN a ELSE b

\* A variant of the squeeze loop that permutes as soon as the block is used
\* up, whether or not more output is requested
RECURSIVE keccak_squeeze_loop_eager(_, _, _, _, _, _, _)
keccak_squeeze_loop_eager(out, outlen, s, pos, r, np, idx) ==
  IF outlen = 0
  THEN [s |-> s, pos |-> pos, out |-> out, nperm |-> np, idx |-> idx]
  ELSE LET Emit(s1, p1, i) ==
             keccak_squeeze_loop_eager(
               out \o [j \in 1..(i - p1) |->
                         LaneByte(s1[((p1 + j - 1) \div 8) + 1], (p1 + j - 1) % 8)],
               outlen - (i - p1),
               IF i = r THEN KeccakF1600_StatePermute(s1) ELSE s1,
               IF i = r THEN 0 ELSE i, r,
               np + (IF pos = r THEN 1 ELSE 0) + (IF i = r THEN 1 ELSE 0),
               idx \cup ByteLanes(p1, i))
       IN  IF pos = r
           THEN Emit(KeccakF1600_StatePermute(s), 0, Min(r, outlen))
           ELSE Emit(s, pos, Min(r, pos + outlen))

RECURSIVE keccak_squeeze_loop(_, _, _, _, _, _, _)
keccak_squeeze_loop(out, outlen, s, pos, r, np, idx) ==
  IF outlen = 0
  THEN [s |-> s, pos |-> pos, out |-> out, nperm |-> np, idx |-> idx]
  ELSE LET \* the for loop from cursor p1 on state s1; i is its last value,
           \* where for(i=pos; i < r && i < pos+outlen; i++) ends
           Emit(s1, p1, i) ==
             keccak_squeeze_loop(
               out \o [j \in 1..(i - p1) |->
                         LaneByte(s1[((p1 + j - 1) \div 8) + 1], (p1 + j - 1) % 8)],
               outlen - (i - p1), s1, i, r,
               np + (IF pos = r THEN 1 ELSE 0),
               idx \cup ByteLanes(p1, i))
       IN  IF pos = r
           THEN Emit(KeccakF1600_StatePermute(s), 0, Min(r, outlen))
           ELSE Emit(s, pos, Min(r, pos + outlen))

keccak_squeeze(outlen, s, pos, r) == keccak_squeeze_loop(<< >>, outlen, s, pos, r, 0, {})

\* A variant of the block load that stops one lane short of the rate
XorBlock_short(s, r, in, k) ==
  LET F(l) == IF l - 1 < r \div 8 - 1
              THEN XOR(s[l], load64(SubSeq(in, k + 8 * (l - 1) + 1, k + 8 * (l - 1) + 8)))
              ELSE s[l]
  IN  Lanes([l \in 1..25 |-> F(l)])

\* for(i=0;i<r/8;i++) s[i] ^= load64(in+8*i);  with in at byte k of the input
XorBlock(s, r, in, k) ==
  LET F(l) == IF l - 1 < r \div 8
              THEN XOR(s[l], load64(SubSeq(in, k + 8 * (l - 1) + 1, k + 8 * (l - 1) + 8)))
              ELSE s[l]
  IN  Lanes([l \in 1..25 |-> F(l)])

\* keccak_absorb_once: zero the state, absorb the whole blocks, the rest,
\* the domain byte p at the byte after the input, and bit 63 of lane (r-1)/8
RECURSIVE keccak_absorb_once_loop(_, _, _, _, _, _)
keccak_absorb_once_loop(s, r, in, k, p, np) ==
  IF Len(in) - k >= r
  THEN keccak_absorb_once_loop(KeccakF1600_StatePermute(XorBlock(s, r, in, k)),
                               r, in, k + r, p, np + 1)
  ELSE LET i  == Len(in) - k
           s1 == XorBytes(s, 0, i, in, k)
           s2 == [s1 EXCEPT ![(i \div 8) + 1] = XOR(@, ShiftByte(p, i % 8))]
       IN  [s     |-> [s2 EXCEPT ![((r - 1) \div 8) + 1] = XOR(@, {63})],
            pos   |-> i,
            out   |-> << >>,
            nperm |-> np,
            idx   |-> (IF np > 0 THEN 0..(r \div 8 - 1) ELSE {})
                      \cup ByteLanes(0, i) \cup {i \div 8, (r - 1) \div 8}]

keccak_absorb_once(r, in, p) == keccak_absorb_once_loop(keccak_init, r, in, 0, p, 0)

\* keccak_squeezeblocks: per block, permute and store64 the lanes 0..r/8-1
RECURSIVE keccak_squeezeblocks_loop(_, _, _, _, _)
keccak_squeezeblocks_loop(out, nblocks, s, r, np) ==
  IF nblocks = 0
  THEN [s |-> s, pos |-> 0, out |-> out, nperm |-> np,
        idx |-> IF np > 0 THEN 0..(r \div 8 - 1) ELSE {}]
  ELSE LET Store(s1) ==
             keccak_squeezeblocks_loop(
               out \o [j \in 1..r |-> store64(s1[((j - 1) \div 8) + 1])[((j - 1) % 8) + 1]],
               nblocks - 1, s1, r, np + 1)
       IN  Store(KeccakF1600_StatePermute(s))

keccak_squeezeblocks(nblocks, s, r) == keccak_squeezeblocks_loop(<< >>, nblocks, s, r, 0)

(***************************************************************************)
(* The SHAKE API on a keccak_state {s, pos}.  shake128_* and shake256_*    *)
(* are the same code but for the rate r they pass on.  Each returns the    *)
(* record of the keccak_* function it calls, with pos the value it stores  *)
(* in state->pos.                                                          *)
(***************************************************************************)
Rates == {SHAKE128_RATE, SHAKE256_RATE}

shake_init ==
  [s |-> keccak_init, pos |-> 0, out |-> << >>, nperm |-> 0, idx |-> 0..24]

shake_absorb(s, pos, r, in) == keccak_absorb(s, pos, r, in)

shake_finalize(s, pos, r) == [keccak_finalize(s, pos, r, 31) EXCEPT !.pos = r]

shake_squeeze(outlen, s, pos, r) == keccak_squeeze(outlen, s, pos, r)

shake_absorb_once(r, in) == [keccak_absorb_once(r, in, 31) EXCEPT !.pos = r]

\* A variant of squeezeblocks that moves the cursor to the start of the block
\* it has written
shake_squeezeblocks_reset(nblocks, s, pos, r) ==
  [keccak_squeezeblocks(nblocks, s, r) EXCEPT !.pos = IF nblocks > 0 THEN 0 ELSE pos]

\* state->pos is left as it is
shake_squeezeblocks(nblocks, s, pos, r) ==
  [keccak_squeezeblocks(nblocks, s, r) EXCEPT !.pos = pos]

(***************************************************************************)
(* The one-shot functions, each on a state of its own.  The record they    *)
(* return also holds absorbed, the state when the output phase begins.     *)
(***************************************************************************)
shake128(outlen, in) ==
  LET nblocks == outlen \div SHAKE128_RATE
      \* a, b, c: what absorb_once, squeezeblocks and squeeze did
      Done(a, b, c) ==
        [s |-> c.s, pos |-> c.pos, out |-> b.out \o c.out,
         nperm |-> a.nperm + b.nperm + c.nperm,
         idx |-> a.idx \cup b.idx \cup c.idx,
         absorbed |-> [s |-> a.s, pos |-> a.pos]]
      Rest(a, b) ==
        Done(a, b, shake_squeeze(outlen - nblocks * SHAKE128_RATE, b.s, b.pos, SHAKE128_RATE))
      Blocks(a) == Rest(a, shake_squeezeblocks(nblocks, a.s, a.pos, SHAKE128_RATE))
  IN  Blocks(shake_absorb_once(SHAKE128_RATE, in))

shake256(outlen, in) ==
  LET nblocks == outlen \div SHAKE256_RATE
      \* a, b, c: what absorb_once, squeezeblocks and squeeze did
      Done(a, b, c) ==
        [s |-> c.s, pos |-> c.pos, out |-> b.out \o c.out,
         nperm |-> a.nperm + b.nperm + c.nperm,
         idx |-> a.idx \cup b.idx \cup c.idx,
         absorbed |-> [s |-> a.s, pos |-> a.pos]]
      Rest(a, b) ==
        Done(a, b, shake_squeeze(outlen - nblocks * SHAKE256_RATE, b.s, b.pos, SHAKE256_RATE))
      Blocks(a) == Rest(a, shake_squeezeblocks(nblocks, a.s, a.pos, SHAKE256_RATE))
  IN  Blocks(shake_absorb_once(SHAKE256_RATE, in))

\* h[8*i .. 8*i+7] = store64(s[i]) for the first nlanes lanes
StoreLanes(st, nlanes) ==
  [j \in 1..(8 * nlanes) |-> store64(st[((j - 1) \div 8) + 1])[((j - 1) % 8) + 1]]

sha3_256(in) ==
  LET \* a: what keccak_absorb_once did; s1: the permuted state
      Done(a, s1) ==
        [s |-> s1, pos |-> a.pos, out |-> StoreLanes(s1, 4),
         nperm |-> a.nperm + 1, idx |-> a.idx \cup (0..24),
         absorbed |-> [s |-> a.s, pos |-> a.pos]]
      Permuted(a) == Done(a, KeccakF1600_StatePermute(a.s))
  IN  Permuted(keccak_absorb_once(SHA3_256_RATE, in, 6))

sha3_512(in) ==
  LET \* a: what keccak_absorb_once did; s1: the permuted state
      Done(a, s1) ==
        [s |-> s1, pos |-> a.pos, out |-> StoreLanes(s1, 8),
         nperm |-> a.nperm + 1, idx |-> a.idx \cup (0..24),
         absorbed |-> [s |-> a.s, pos |-> a.pos]]
      Permuted(a) == Done(a, KeccakF1600_StatePermute(a.s))
  IN  Permuted(keccak_absorb_once(SHA3_512_RATE, in, 6))

(***************************************************************************)
(* Parameters and coefficient arithmetic.  poly.c, reduce.c and rounding.c *)
(* are not among the sources; their functions follow the specification.    *)
(* Coefficients are int32_t; a 64-bit product is kept as << hi, lo1, lo0 >>*)
(* with value hi * 2^32 + lo1 * 2^16 + lo0, hi signed and 0 <= lo < 2^16.  *)
(***************************************************************************)
SEEDBYTES == 32
N == 256
Q == 8380417
D == 13
QINV == 58728449

\* (int64_t)x * y for int32_t x, y, from the 16-bit halves of x and y
Mul64(x, y) ==
  LET x0 == x % 65536
      x1 == x \div 65536
      y0 == y % 65536
      y1 == y \div 65536
      \* x0 * y0 = lo + 2^16 * carry, by the two bytes of y0
      Low(p0, p1) ==
        LET w == p0 + (p1 % 256) * 256
        IN  << w % 65536, (w \div 65536) + (p1 \div 256) >>
      \* the middle terms m1 = x1 * y0 and m2 = x0 * y1, and x0 * y0 = ll
      Sum(m1, m2, ll) ==
        LET w == (m1 % 65536) + (m2 % 65536) + ll[2]
        IN  << x1 * y1 + (m1 \div 65536) + (m2 \div 65536) + (w \div 65536),
               w % 65536, ll[1] >>
  IN  Sum(x1 * y0, x0 * y1, Low(x0 * (y0 % 256), x0 * (y0 \div 256)))

\* (int32_t)v for v = w1 * 2^16 + w0 with 0 <= w1, w0 < 2^16
Int32(w1, w0) == (IF w1 >= 32768 THEN w1 - 65536 ELSE w1) * 65536 + w0

\* montgomery_reduce(a): t = (int32_t)((int32_t)a * QINV); (a - t * Q) >> 32.
\* The low 32 bits of a - t * Q are zero, so the result is the difference of
\* the high words.
montgomery_reduce(a) ==
  LET q0 == QINV % 65536
      q1 == QINV \div 65536
      T(p) == Int32(((p \div 65536) + a[3] * q1 + a[2] * q0) % 65536, p % 65536)
      R(tq) == a[1] - tq[1]
  IN  R(Mul64(T(a[3] * q0), Q))

\* reduce32(a): t = (a + (1 << 22)) >> 23; a - t * Q
reduce32(a) == a - ((a + 4194304) \div 8388608) * Q

\* caddq(a): a += (a >> 31) & Q
caddq(a) == IF a < 0 THEN a + Q ELSE a

\* power2round(a) = << a1, a0 >>: a1 = (a + (1 << (D-1)) - 1) >> D; a0 = a - (a1 << D)
power2round(a) ==
  LET Split(a1) == << a1, a - a1 * (2 ^ D) >>
  IN  Split((a + 2 ^ (D - 1) - 1) \div (2 ^ D))

\* decompose(a) = << a1, a0 >> for 0 <= a < Q and gamma2 = GAMMA2:
\* a1 is a / (2 * gamma2) rounded to the nearest (for (Q-1)/32 computed as
\* (((a + 127) >> 7) * 1025 + (1 << 21)) >> 22 & 15), a0 = a - a1 * 2 * gamma2,
\* less Q when it exceeds gamma2; a1 = (Q-1) / (2 * gamma2) becomes 0.
decompose(a, gamma2) ==
  LET m == (Q - 1) \div (2 * gamma2)
      Rest(a1, a0) == << a1, IF a0 > gamma2 THEN a0 - Q ELSE a0 >>
      Split(a1) == Rest(a1, a - a1 * 2 * gamma2)
  IN  IF gamma2 = (Q - 1) \div 32
      THEN Split((((((a + 127) \div 128) * 1025) + 2097152) \div 4194304) % 16)
      ELSE Split(((a + gamma2 - 1) \div (2 * gamma2)) % m)

\* use_hint(a, hint): a1 if hint = 0, else a1 + 1 or a1 - 1 modulo m by the
\* sign of a0
use_hint(a, hint, gamma2) ==
  LET m == (Q - 1) \div (2 * gamma2)
      Pick(d) == IF hint = 0 THEN d[1]
                 ELSE IF d[2] > 0 THEN (d[1] + 1) % m ELSE (d[1] - 1) % m
  IN  Pick(decompose(a, gamma2))

\* make_hint(a0, a1): 1 if a0 > GAMMA2, a0 < -GAMMA2, or a0 = -GAMMA2 and a1 # 0
make_hint(a0, a1, gamma2) ==
  IF a0 > gamma2 \/ a0 < -gamma2 \/ (a0 = -gamma2 /\ a1 # 0) THEN 1 ELSE 0

(***************************************************************************)
(* Memory.  An address is << object, row, index >>: polynomial index of    *)
(* vector row of the object (a polyveck or polyvecl has one row, the       *)
(* matrix K rows, a single poly one row and index 0).  A pointer to a      *)
(* vector is << object, row >>.  heap[address] is the coefficient array    *)
(* (for the seed rho, the byte array).  An object the caller has not yet   *)
(* written has no value in heap.                                           *)
(***************************************************************************)
Elem(vec, i) == << vec[1], vec[2], i >>

ZeroPoly == [n \in 1..N |-> 0]

\* the object at address c is written to: it gets a value if it has none
Alloc(h, c) == IF c \in DOMAIN h THEN h ELSE (c :> ZeroPoly) @@ h

\* for(i = 0; i < N; ++i) c->coeffs[i] = f(a->coeffs[i], b->coeffs[i]);
\* coefficient by coefficient in memory, so that c may be a or b
Coeff(f, x, y, gamma2) ==
  CASE f = "add" -> x + y
    [] f = "sub" -> x - y
    [] f = "reduce" -> reduce32(x)
    [] f = "caddq" -> caddq(x)
    [] f = "shiftl" -> x * (2 ^ D)
    [] f = "pointwise_montgomery" -> montgomery_reduce(Mul64(x, y))
    [] f = "use_hint" -> use_hint(x, y, gamma2)
    [] f = "make_hint" -> make_hint(x, y, gamma2)

\* the iterations i = from, ..., to - 1 of the loop, in this order
RECURSIVE poly_coeffs(_, _, _, _, _, _, _, _)
poly_coeffs(h, f, c, a, b, gamma2, from, to) ==
  IF to - from = 1
  THEN [h EXCEPT ![c][to] = Coeff(f, h[a][to], h[b][to], gamma2)]
  ELSE LET mid == (from + to) \div 2
           Go(h1) == IF Len(h1[c]) = N
                     THEN poly_coeffs(h1, f, c, a, b, gamma2, mid, to) ELSE h1
       IN  Go(poly_coeffs(h, f, c, a, b, gamma2, from, mid))

poly_add(h, c, a, b) == poly_coeffs(Alloc(h, c), "add", c, a, b, 0, 0, N)
poly_sub(h, c, a, b) == poly_coeffs(Alloc(h, c), "sub", c, a, b, 0, 0, N)
poly_reduce(h, a) == poly_coeffs(h, "reduce", a, a, a, 0, 0, N)
poly_caddq(h, a) == poly_coeffs(h, "caddq", a, a, a, 0, 0, N)
poly_shiftl(h, a) == poly_coeffs(h, "shiftl", a, a, a, 0, 0, N)
poly_pointwise_montgomery(h, c, a, b) ==
  poly_coeffs(Alloc(h, c), "pointwise_montgomery", c, a, b, 0, 0, N)
\* the sum of the coefficients from + 1 .. to of a
RECURSIVE SumCoeffs(_, _, _)
SumCoeffs(a, from, to) ==
  IF to - from = 1 THEN a[to]
  ELSE SumCoeffs(a, from, (from + to) \div 2) + SumCoeffs(a, (from + to) \div 2, to)

\* poly_make_hint(h, a0, a1): h[i] = make_hint(a0[i], a1[i]); returns the number of 1 bits
poly_make_hint(h, hint, a0, a1, gamma2) ==
  LET Count(h1) == [h |-> h1, ret |-> SumCoeffs(h1[hint], 0, N)]
  IN  Count(poly_coeffs(Alloc(h, hint), "make_hint", hint, a0, a1, gamma2, 0, N))

poly_use_hint(h, b, a, hint, gamma2) ==
  poly_coeffs(Alloc(h, b), "use_hint", b, a, hint, gamma2, 0, N)

\* for(i = 0; i < N; ++i) a1->coeffs[i] = f(&a0->coeffs[i], a->coeffs[i]);
\* a->coeffs[i] is read, then a0->coeffs[i] and a1->coeffs[i] are written
RECURSIVE poly_split(_, _, _, _, _, _, _, _)
poly_split(h, f, a1, a0, a, gamma2, from, to) ==
  IF to - from = 1
  THEN LET Write(d) == [[h EXCEPT ![a0][to] = d[2]] EXCEPT ![a1][to] = d[1]]
       IN  Write(IF f = "power2round" THEN power2round(h[a][to])
                 ELSE decompose(h[a][to], gamma2))
  ELSE LET mid == (from + to) \div 2
           Go(h1) == IF Len(h1[a1]) = N
                     THEN poly_split(h1, f, a1, a0, a, gamma2, mid, to) ELSE h1
       IN  Go(poly_split(h, f, a1, a0, a, gamma2, from, mid))

poly_power2round(h, a1, a0, a) ==
  poly_split(Alloc(Alloc(h, a1), a0), "power2round", a1, a0, a, 0, 0, N)
poly_decompose(h, a1, a0, a, gamma2) ==
  poly_split(Alloc(Alloc(h, a1), a0), "decompose", a1, a0, a, gamma2, 0, N)

\* rej_uniform: three bytes at a time make a 23-bit integer, kept if below Q
Below_Q(t) == t < Q

rej_uniform(buf) ==
  SelectSeq([k \in 1..(Len(buf) \div 3) |->
               buf[3 * k - 2] + 256 * buf[3 * k - 1] + 65536 * (buf[3 * k] % 128)],
            Below_Q)

\* blocks of the SHAKE128 stream are squeezed until N coefficients are there
RECURSIVE poly_uniform_loop(_, _, _)
poly_uniform_loop(coeffs, s, pos) ==
  IF Len(coeffs) >= N THEN SubSeq(coeffs, 1, N)
  ELSE LET Go(b) == poly_uniform_loop(coeffs \o rej_uniform(b.out), b.s, b.pos)
       IN  Go(shake_squeezeblocks(1, s, pos, SHAKE128_RATE))

\* A variant that absorbs the high byte of nonce first
poly_uniform_be(h, a, seed, nonce) ==
  LET Fill(st) == [Alloc(h, a) EXCEPT ![a] = poly_uniform_loop(<< >>, st.s, st.pos)]
  IN  Fill(shake_absorb_once(SHAKE128_RATE, h[seed] \o << nonce \div 256, nonce % 256 >>))

\* poly_uniform(a, seed, nonce): the sponge absorbs seed | nonce as two
\* little-endian bytes; nonce is a uint16_t
poly_uniform(h, a, seed, nonce) ==
  LET Fill(st) == [Alloc(h, a) EXCEPT ![a] = poly_uniform_loop(<< >>, st.s, st.pos)]
  IN  Fill(shake_absorb_once(SHAKE128_RATE, h[seed] \o << nonce % 256, nonce \div 256 >>))

(***************************************************************************)
(* polyvec.c.  K and L are macros of the build: the operators take them as *)
(* k and l (and GAMMA2 as gamma2).  polyvec_matrix_expand also returns the *)
(* calls of poly_uniform it has made, << destination, nonce >> each.       *)
(***************************************************************************)
\* A variant of the expansion with the nonce (j << 8) + i
RECURSIVE polyvec_matrix_expand_swapped_loop(_, _, _, _, _, _)
polyvec_matrix_expand_swapped_loop(st, mat, rho, l, from, to) ==
  IF to - from = 1
  THEN LET i == from \div l
           j == from % l
           Log(dst, nonce) ==
             [h |-> poly_uniform(st.h, dst, rho, nonce),
              calls |-> Append(st.calls, << dst, nonce >>)]
       IN  Log(Elem(<< mat, i >>, j), ((j * 256) + i) % 65536)
  ELSE LET mid == (from + to) \div 2
           Go(st1) == IF Len(st1.calls) > 0
                      THEN polyvec_matrix_expand_swapped_loop(st1, mat, rho, l, mid, to) ELSE st1
       IN  Go(polyvec_matrix_expand_swapped_loop(st, mat, rho, l, from, mid))

polyvec_matrix_expand_swapped(h, mat, rho, k, l) ==
  polyvec_matrix_expand_swapped_loop([h |-> h, calls |-> << >>], mat, rho, l, 0, k * l)

\* for(i = 0; i < K; ++i) for(j = 0; j < L; ++j)
\*   poly_uniform(&mat[i].vec[j], rho, (i << 8) + j);
\* The iterations from, ..., to - 1 of the two loops, in their order: iteration
\* i * L + j is the one for (i, j).
RECURSIVE polyvec_matrix_expand_loop(_, _, _, _, _, _)
polyvec_matrix_expand_loop(st, mat, rho, l, from, to) ==
  IF to - from = 1
  THEN LET i == from \div l
           j == from % l
           Log(dst, nonce) ==
             [h |-> poly_uniform(st.h, dst, rho, nonce),
              calls |-> Append(st.calls, << dst, nonce >>)]
       IN  Log(Elem(<< mat, i >>, j), ((i * 256) + j) % 65536)
  ELSE LET mid == (from + to) \div 2
           Go(st1) == IF Len(st1.calls) > 0
                      THEN polyvec_matrix_expand_loop(st1, mat, rho, l, mid, to) ELSE st1
       IN  Go(polyvec_matrix_expand_loop(st, mat, rho, l, from, mid))

polyvec_matrix_expand(h, mat, rho, k, l) ==
  polyvec_matrix_expand_loop([h |-> h, calls |-> << >>], mat, rho, l, 0, k * l)

\* the local variable poly t of polyvecl_pointwise_acc_montgomery
Local_t == << "t", 0, 0 >>

Return(h) == [a \in (DOMAIN h) \ {Local_t} |-> h[a]]

\* A variant that accumulates from the last product down to the first
polyvecl_pointwise_acc_montgomery_rev(h, w, u, v, l) ==
  LET RECURSIVE For(_, _)
      For(h1, i) ==
        IF i = l THEN h1
        ELSE LET Step(h3) == IF DOMAIN h3 # {} THEN For(h3, i + 1) ELSE h3
                 Add(h2) == IF DOMAIN h2 # {} THEN Step(poly_add(h2, w, w, Local_t)) ELSE h2
             IN  Add(poly_pointwise_montgomery(h1, Local_t, Elem(u, l - 1 - i), Elem(v, l - 1 - i)))
  IN  Return(For(poly_pointwise_montgomery(h, w, Elem(u, l - 1), Elem(v, l - 1)), 1))

\* poly_pointwise_montgomery(w, &u->vec[0], &v->vec[0]);
\* for(i = 1; i < L; ++i) {
\*   poly_pointwise_montgomery(&t, &u->vec[i], &v->vec[i]); poly_add(w, w, &t); }
polyvecl_pointwise_acc_montgomery(h, w, u, v, l) ==
  LET RECURSIVE For(_, _)
      For(h1, i) ==
        IF i = l THEN h1
        ELSE LET Step(h3) == IF DOMAIN h3 # {} THEN For(h3, i + 1) ELSE h3
                 Add(h2) == IF DOMAIN h2 # {} THEN Step(poly_add(h2, w, w, Local_t)) ELSE h2
             IN  Add(poly_pointwise_montgomery(h1, Local_t, Elem(u, i), Elem(v, i)))
  IN  Return(For(poly_pointwise_montgomery(h, w, Elem(u, 0), Elem(v, 0)), 1))

\* A variant that multiplies every row of the result from row 0 of the matrix
polyvec_matrix_pointwise_montgomery_row0(h, t, mat, v, k, l) ==
  LET RECURSIVE For(_, _)
      For(h1, i) ==
        IF i = k THEN h1
        ELSE LET Step(h2) == IF DOMAIN h2 # {} THEN For(h2, i + 1) ELSE h2
             IN  Step(polyvecl_pointwise_acc_montgomery(h1, Elem(t, i), << mat, 0 >>, v, l))
  IN  For(h, 0)

\* for(i = 0; i < K; ++i)
\*   polyvecl_pointwise_acc_montgomery(&t->vec[i], &mat[i], v);
polyvec_matrix_pointwise_montgomery(h, t, mat, v, k, l) ==
  LET RECURSIVE For(_, _)
      For(h1, i) ==
        IF i = k THEN h1
        ELSE LET Step(h2) == IF DOMAIN h2 # {} THEN For(h2, i + 1) ELSE h2
             IN  Step(polyvecl_pointwise_acc_montgomery(h1, Elem(t, i), << mat, i >>, v, l))
  IN  For(h, 0)


(***************************************************************************)
(* The element-wise operations on vectors of length L and of length K      *)
(***************************************************************************)
\* for(i = 0; i < L; ++i) poly_reduce(&v->vec[i]);
polyvecl_reduce(h, v, l) ==
  LET RECURSIVE For(_, _)
      Step(h2, i) == IF DOMAIN h2 # {} THEN For(h2, i + 1) ELSE h2
      For(h1, i) == IF i = l THEN h1 ELSE Step(poly_reduce(h1, Elem(v, i)), i)
  IN  For(h, 0)

\* for(i = 0; i < L; ++i) poly_add(&w->vec[i], &u->vec[i], &v->vec[i]);
polyvecl_add(h, w, u, v, l) ==
  LET RECURSIVE For(_, _)
      Step(h2, i) == IF DOMAIN h2 # {} THEN For(h2, i + 1) ELSE h2
      For(h1, i) == IF i = l THEN h1 ELSE Step(poly_add(h1, Elem(w, i), Elem(u, i), Elem(v, i)), i)
  IN  For(h, 0)

\* for(i = 0; i < L; ++i) poly_pointwise_montgomery(&r->vec[i], a, &v->vec[i]);
\* the loop adding a to each element instead
polyvecl_pointwise_poly_montgomery_add(h, r, a, v, l) ==
  LET RECURSIVE For(_, _)
      Step(h2, i) == IF DOMAIN h2 # {} THEN For(h2, i + 1) ELSE h2
      For(h1, i) == IF i = l THEN h1 ELSE Step(poly_add(h1, Elem(r, i), a, Elem(v, i)), i)
  IN  For(h, 0)

polyvecl_pointwise_poly_montgomery(h, r, a, v, l) ==
  LET RECURSIVE For(_, _)
      Step(h2, i) == IF DOMAIN h2 # {} THEN For(h2, i + 1) ELSE h2
      For(h1, i) == IF i = l THEN h1 ELSE Step(poly_pointwise_montgomery(h1, Elem(r, i), a, Elem(v, i)), i)
  IN  For(h, 0)

\* for(i = 0; i < K; ++i) poly_reduce(&v->vec[i]);
polyveck_reduce(h, v, k) ==
  LET RECURSIVE For(_, _)
      Step(h2, i) == IF DOMAIN h2 # {} THEN For(h2, i + 1) ELSE h2
      For(h1, i) == IF i = k THEN h1 ELSE Step(poly_reduce(h1, Elem(v, i)), i)
  IN  For(h, 0)

\* for(i = 0; i < K; ++i) poly_caddq(&v->vec[i]);
\* the loop reducing once more instead
polyveck_caddq_reduce(h, v, k) ==
  LET RECURSIVE For(_, _)
      Step(h2, i) == IF DOMAIN h2 # {} THEN For(h2, i + 1) ELSE h2
      For(h1, i) == IF i = k THEN h1 ELSE Step(poly_reduce(h1, Elem(v, i)), i)
  IN  For(h, 0)

polyveck_caddq(h, v, k) ==
  LET RECURSIVE For(_, _)
      Step(h2, i) == IF DOMAIN h2 # {} THEN For(h2, i + 1) ELSE h2
      For(h1, i) == IF i = k THEN h1 ELSE Step(poly_caddq(h1, Elem(v, i)), i)
  IN  For(h, 0)

\* for(i = 0; i < K; ++i) poly_add(&w->vec[i], &u->vec[i], &v->vec[i]);
polyveck_add(h, w, u, v, k) ==
  LET RECURSIVE For(_, _)
      Step(h2, i) == IF DOMAIN h2 # {} THEN For(h2, i + 1) ELSE h2
      For(h1, i) == IF i = k THEN h1 ELSE Step(poly_add(h1, Elem(w, i), Elem(u, i), Elem(v, i)), i)
  IN  For(h, 0)

\* for(i = 0; i < K; ++i) poly_sub(&w->vec[i], &u->vec[i], &v->vec[i]);
polyveck_sub(h, w, u, v, k) ==
  LET RECURSIVE For(_, _)
      Step(h2, i) == IF DOMAIN h2 # {} THEN For(h2, i + 1) ELSE h2
      For(h1, i) == IF i = k THEN h1 ELSE Step(poly_sub(h1, Elem(w, i), Elem(u, i), Elem(v, i)), i)
  IN  For(h, 0)

\* for(i = 0; i < K; ++i) poly_shiftl(&v->vec[i]);
polyveck_shiftl(h, v, k) ==
  LET RECURSIVE For(_, _)
      Step(h2, i) == IF DOMAIN h2 # {} THEN For(h2, i + 1) ELSE h2
      For(h1, i) == IF i = k THEN h1 ELSE Step(poly_shiftl(h1, Elem(v, i)), i)
  IN  For(h, 0)

\* for(i = 0; i < K; ++i) poly_pointwise_montgomery(&r->vec[i], a, &v->vec[i]);
polyveck_pointwise_poly_montgomery(h, r, a, v, k) ==
  LET RECURSIVE For(_, _)
      Step(h2, i) == IF DOMAIN h2 # {} THEN For(h2, i + 1) ELSE h2
      For(h1, i) == IF i = k THEN h1 ELSE Step(poly_pointwise_montgomery(h1, Elem(r, i), a, Elem(v, i)), i)
  IN  For(h, 0)

\* for(i = 0; i < K; ++i) poly_power2round(&v1->vec[i], &v0->vec[i], &v->vec[i]);
\* the loop with the two outputs taken for each other
polyveck_power2round_swapped(h, v1, v0, v, k) ==
  LET RECURSIVE For(_, _)
      Step(h2, i) == IF DOMAIN h2 # {} THEN For(h2, i + 1) ELSE h2
      For(h1, i) == IF i = k THEN h1 ELSE Step(poly_power2round(h1, Elem(v0, i), Elem(v1, i), Elem(v, i)), i)
  IN  For(h, 0)

polyveck_power2round(h, v1, v0, v, k) ==
  LET RECURSIVE For(_, _)
      Step(h2, i) == IF DOMAIN h2 # {} THEN For(h2, i + 1) ELSE h2
      For(h1, i) == IF i = k THEN h1 ELSE Step(poly_power2round(h1, Elem(v1, i), Elem(v0, i), Elem(v, i)), i)
  IN  For(h, 0)

\* for(i = 0; i < K; ++i) poly_decompose(&v1->vec[i], &v0->vec[i], &v->vec[i]);
\* the loop with the two outputs taken for each other
polyveck_decompose_swapped(h, v1, v0, v, k, gamma2) ==
  LET RECURSIVE For(_, _)
      Step(h2, i) == IF DOMAIN h2 # {} THEN For(h2, i + 1) ELSE h2
      For(h1, i) == IF i = k THEN h1 ELSE Step(poly_decompose(h1, Elem(v0, i), Elem(v1, i), Elem(v, i), gamma2), i)
  IN  For(h, 0)

polyveck_decompose(h, v1, v0, v, k, gamma2) ==
  LET RECURSIVE For(_, _)
      Step(h2, i) == IF DOMAIN h2 # {} THEN For(h2, i + 1) ELSE h2
      For(h1, i) == IF i = k THEN h1 ELSE Step(poly_decompose(h1, Elem(v1, i), Elem(v0, i), Elem(v, i), gamma2), i)
  IN  For(h, 0)

\* for(i = 0; i < K; ++i) poly_use_hint(&w->vec[i], &u->vec[i], &h->vec[i]);
\* the loop with the low and the high part taken for each other
polyveck_make_hint_swapped(h, hint, v0, v1, k, gamma2) ==
  LET RECURSIVE For(_, _)
      Step(st, i) == IF st.ret >= 0 THEN For(st, i + 1) ELSE st
      Add(st, res) == [h |-> res.h, ret |-> st.ret + res.ret]
      For(st, i) ==
        IF i = k THEN st
        ELSE Step(Add(st, poly_make_hint(st.h, Elem(hint, i), Elem(v1, i), Elem(v0, i), gamma2)), i)
  IN  For([h |-> h, ret |-> 0], 0)

\* s = 0; for(i = 0; i < K; ++i) s += poly_make_hint(&h->vec[i], &v0->vec[i], &v1->vec[i]);
\* returns [h, ret]: memory and s
polyveck_make_hint(h, hint, v0, v1, k, gamma2) ==
  LET RECURSIVE For(_, _)
      Step(st, i) == IF st.ret >= 0 THEN For(st, i + 1) ELSE st
      Add(st, res) == [h |-> res.h, ret |-> st.ret + res.ret]
      For(st, i) ==
        IF i = k THEN st
        ELSE Step(Add(st, poly_make_hint(st.h, Elem(hint, i), Elem(v0, i), Elem(v1, i), gamma2)), i)
  IN  For([h |-> h, ret |-> 0], 0)

polyveck_use_hint(h, w, u, hint, k, gamma2) ==
  LET RECURSIVE For(_, _)
      Step(h2, i) == IF DOMAIN h2 # {} THEN For(h2, i + 1) ELSE h2
      For(h1, i) == IF i = k THEN h1 ELSE Step(poly_use_hint(h1, Elem(w, i), Elem(u, i), Elem(hint, i), gamma2), i)
  IN  For(h, 0)

(***************************************************************************)
(* Packing of a hint vector into OMEGA + K bytes (packing.c is not among   *)
(* the sources).  A hint vector is the sequence of its K polynomials, a    *)
(* byte string a sequence of bytes; byte b of the C array is sig[b + 1].   *)
(***************************************************************************)
\* the indices of the non-zero coefficients of a polynomial, increasing
Positions(a) == SelectSeq([n \in 1..N |-> n - 1], LAMBDA j : a[j + 1] # 0)

Zeros(len) == [n \in 1..len |-> 0]

\* the packer writing the count of each polynomial, not the running count
hint_pack_each(hv, k, omega) ==
  LET RECURSIVE For(_, _, _)
      For(i, idx, cnts) ==
        IF i = k THEN idx \o Zeros(omega - Len(idx)) \o cnts
        ELSE For(i + 1, idx \o Positions(hv[i + 1]), Append(cnts, Len(Positions(hv[i + 1]))))
  IN  For(0, << >>, << >>)

\* The positions of the 1 bits of polynomial 0, 1, .. K-1, then zeros up to
\* OMEGA bytes, then for each polynomial the number of positions written so
\* far.  For a vector of at most omega 1 bits.
hint_pack(hv, k, omega) ==
  LET RECURSIVE For(_, _, _)
      For(i, idx, cnts) ==
        IF i = k THEN idx \o Zeros(omega - Len(idx)) \o cnts
        ELSE For(i + 1, idx \o Positions(hv[i + 1]),
                 Append(cnts, Len(idx) + Len(Positions(hv[i + 1]))))
  IN  For(0, << >>, << >>)

\* the unpacker taking an index equal to the one before it
hint_unpack_loose(sig, k, omega) ==
  LET Bits(from, to) == [n \in 1..N |-> IF \E j \in from..(to - 1) : sig[j + 1] = n - 1 THEN 1 ELSE 0]
      RECURSIVE For(_, _, _)
      For(i, prev, hv) ==
        IF i = k THEN [ret |-> 0, h |-> hv]
        ELSE IF sig[omega + i + 1] < prev \/ sig[omega + i + 1] > omega
             THEN [ret |-> 1, h |-> hv]
             ELSE IF \E j \in (prev + 1)..(sig[omega + i + 1] - 1) : sig[j + 1] < sig[j]
                  THEN [ret |-> 1, h |-> hv]
                  ELSE For(i + 1, sig[omega + i + 1], Append(hv, Bits(prev, sig[omega + i + 1])))
  IN  For(0, 0, << >>)

\* Returns [ret, h]: ret = 1, a failure, when the running count of a
\* polynomial is below the one before it or above OMEGA, or an index of its
\* segment is not above the index before it; else ret = 0 and h the vector.
hint_unpack(sig, k, omega) ==
  LET Bits(from, to) == [n \in 1..N |-> IF \E j \in from..(to - 1) : sig[j + 1] = n - 1 THEN 1 ELSE 0]
      RECURSIVE For(_, _, _)
      For(i, prev, hv) ==
        IF i = k THEN [ret |-> 0, h |-> hv]
        ELSE IF sig[omega + i + 1] < prev \/ sig[omega + i + 1] > omega
             THEN [ret |-> 1, h |-> hv]
             ELSE IF \E j \in (prev + 1)..(sig[omega + i + 1] - 1) : sig[j + 1] <= sig[j]
                  THEN [ret |-> 1, h |-> hv]
                  ELSE For(i + 1, sig[omega + i + 1], Append(hv, Bits(prev, sig[omega + i + 1])))
  IN  For(0, 0, << >>)

(***************************************************************************)
(* The norm check.  poly_chknorm(a, B) is 1 when some coefficient of a has *)
(* absolute value >= B, else 0.  The vector functions return             *)
(* [ret, calls]: the value returned and the polynomials poly_chknorm was   *)
(* called on, in order.                                                    *)
(***************************************************************************)
Abs(x) == IF x < 0 THEN -x ELSE x

poly_chknorm(h, a, B) == IF \E n \in 1..N : Abs(h[a][n]) >= B THEN 1 ELSE 0

\* the loop stopping one polynomial short
polyvecl_chknorm_short(h, v, bound, l) ==
  IF \E i \in 0..(l - 2) : \E n \in 1..N : Abs(h[Elem(v, i)][n]) >= bound
  THEN [ret |-> 1, calls |-> << >>] ELSE [ret |-> 0, calls |-> << >>]

\* for(i = 0; i < len; ++i) if(poly_chknorm(&v->vec[i], bound)) return 1; return 0;
polyvec_chknorm(h, v, bound, len) ==
  LET RECURSIVE For(_, _)
      For(i, calls) ==
        IF i = len THEN [ret |-> 0, calls |-> calls]
        ELSE IF poly_chknorm(h, Elem(v, i), bound) # 0
             THEN [ret |-> 1, calls |-> Append(calls, Elem(v, i))]
             ELSE For(i + 1, Append(calls, Elem(v, i)))
  IN  For(0, << >>)

polyvecl_chknorm(h, v, bound, l) == polyvec_chknorm(h, v, bound, l)

polyveck_chknorm(h, v, bound, k) == polyvec_chknorm(h, v, bound, k)

(***************************************************************************)
(* The state machine: one keccak_state used with one rate, and the calls   *)
(* made on it.                                                             *)
(***************************************************************************)
VARIABLES
  rate,    \* the rate of the instantiation the state is used with
  s,       \* state->s
  pos,     \* state->pos
  op,      \* the last call
  in,      \* its input bytes (absorb, absorb_once, one-shot functions)
  outlen,  \* its requested output length (squeeze, one-shot) or nblocks
  ret,     \* what it did: [out, nperm, idx] of the record returned
  pre,     \* [s, pos] before it
  phase,   \* "absorbing", "squeezing", or "misused" once a call came out of order
  msg,     \* the bytes absorbed since init
  perms,   \* the number of permutations since init
  fin,     \* [s, pos] when the output phase began
  out,     \* the bytes emitted since then
  calls    \* the number of calls made

spongeVars == << rate, s, pos, op, in, outlen, ret, pre, phase, msg, perms, fin, out, calls >>

\* The vector layer: polynomials in memory and the calls made on them
VARIABLES
  mode,    \* DILITHIUM_MODE of the build
  heap,    \* memory: the coefficients (or bytes) of each object, by address
  vop,     \* the last vector call: [name, outs, ins], its pointer arguments
  vpre,    \* heap before it
  vcalls,  \* the poly_* calls it made that the claims speak of
  vret     \* the value it returned, << >> for a void function

vecVars == << mode, heap, vop, vpre, vcalls, vret >>

vars == << spongeVars, vecVars >>

\* No vector call has been made and nothing is allocated
NoCall == [name |-> "none", outs |-> << >>, ins |-> << >>]

VecIdle ==
  /\ mode = 2
  /\ heap = << >>
  /\ vop = NoCall
  /\ vpre = << >>
  /\ vcalls = << >>
  /\ vret = << >>

\* Bounds of the exploration
MaxCalls == 3
MaxIn == 340
MaxOut == 340

\* The input bytes offered to the call that absorbs at offset k of the message
Chunk(k, n) == [i \in 1..n |-> (31 + 157 * (k + i - 1)) % 256]

Did(res) == [out |-> res.out, nperm |-> res.nperm, idx |-> res.idx]

SpongeAt(r) ==
  /\ rate = r
  /\ s = shake_init.s
  /\ pos = shake_init.pos
  /\ op = "init"
  /\ in = << >>
  /\ outlen = 0
  /\ ret = Did(shake_init)
  /\ pre = [s |-> shake_init.s, pos |-> shake_init.pos]
  /\ phase = "absorbing"
  /\ msg = << >>
  /\ perms = 0
  /\ fin = [s |-> shake_init.s, pos |-> shake_init.pos]
  /\ out = << >>
  /\ calls = 0

InitSponge == (\E r \in Rates : SpongeAt(r)) /\ VecIdle

Absorb(lens) ==
  \E n \in lens :
    /\ calls < MaxCalls
    /\ Len(msg) + n <= MaxIn
    /\ \E c \in {Chunk(Len(msg), n)} :
         /\ \E res \in {shake_absorb(s, pos, rate, c)} :
              /\ s' = res.s
              /\ pos' = res.pos
              /\ ret' = Did(res)
              /\ perms' = perms + res.nperm
         /\ in' = c
         /\ msg' = msg \o c
    /\ op' = "absorb"
    /\ outlen' = 0
    /\ pre' = [s |-> s, pos |-> pos]
    /\ phase' = IF phase = "absorbing" THEN "absorbing" ELSE "misused"
    /\ calls' = calls + 1
    /\ UNCHANGED << rate, fin, out, vecVars >>

Finalize ==
  /\ calls < MaxCalls
  /\ \E res \in {shake_finalize(s, pos, rate)} :
       /\ s' = res.s
       /\ pos' = res.pos
       /\ ret' = Did(res)
       /\ fin' = [s |-> res.s, pos |-> res.pos]
  /\ op' = "finalize"
  /\ in' = << >>
  /\ outlen' = 0
  /\ pre' = [s |-> s, pos |-> pos]
  /\ phase' = IF phase = "absorbing" THEN "squeezing" ELSE "misused"
  /\ out' = << >>
  /\ calls' = calls + 1
  /\ UNCHANGED << rate, msg, perms, vecVars >>

Squeeze(lens) ==
  \E n \in lens :
    /\ calls < MaxCalls
    /\ Len(out) + n <= MaxOut
    /\ \E res \in {shake_squeeze(n, s, pos, rate)} :
         /\ s' = res.s
         /\ pos' = res.pos
         /\ ret' = Did(res)
         /\ perms' = perms + res.nperm
         /\ out' = out \o res.out
    /\ op' = "squeeze"
    /\ in' = << >>
    /\ outlen' = n
    /\ pre' = [s |-> s, pos |-> pos]
    /\ phase' = IF phase = "squeezing" THEN "squeezing" ELSE "misused"
    /\ calls' = calls + 1
    /\ UNCHANGED << rate, msg, fin, vecVars >>

AbsorbOnce(lens) ==
  \E n \in lens :
    /\ calls < MaxCalls
    /\ \E c \in {Chunk(0, n)} :
         /\ \E res \in {shake_absorb_once(rate, c)} :
              /\ s' = res.s
              /\ pos' = res.pos
              /\ ret' = Did(res)
              /\ perms' = res.nperm
              /\ fin' = [s |-> res.s, pos |-> res.pos]
         /\ in' = c
         /\ msg' = c
    /\ op' = "absorb_once"
    /\ outlen' = 0
    /\ pre' = [s |-> s, pos |-> pos]
    /\ phase' = "squeezing"
    /\ out' = << >>
    /\ calls' = calls + 1
    /\ UNCHANGED << rate, vecVars >>

SqueezeBlocks(counts) ==
  \E n \in counts :
    /\ calls < MaxCalls
    /\ Len(out) + n * rate <= MaxOut
    /\ \E res \in {shake_squeezeblocks(n, s, pos, rate)} :
         /\ s' = res.s
         /\ pos' = res.pos
         /\ ret' = Did(res)
         /\ perms' = perms + res.nperm
         /\ out' = out \o res.out
    /\ op' = "squeezeblocks"
    /\ in' = << >>
    /\ outlen' = n
    /\ pre' = [s |-> s, pos |-> pos]
    /\ phase' = IF phase = "squeezing" THEN "squeezing" ELSE "misused"
    /\ calls' = calls + 1
    /\ UNCHANGED << rate, msg, fin, vecVars >>

\* A one-shot call returned: name is the function, r its rate, o the output
\* length, c the input and res the record of what it did
OneShot(name, r, o, c, res) ==
  /\ Len(c) <= MaxIn
  /\ o <= MaxOut
  /\ s' = res.s
  /\ pos' = res.pos
  /\ ret' = Did(res)
  /\ perms' = res.nperm
  /\ fin' = res.absorbed
  /\ out' = res.out
  /\ in' = c
  /\ msg' = c
  /\ rate' = r
  /\ op' = name
  /\ outlen' = o
  /\ pre' = [s |-> s, pos |-> pos]
  /\ phase' = "done"
  /\ calls' = calls + 1
  /\ UNCHANGED vecVars

Shake128(lens, outlens) ==
  \E n \in lens, o \in outlens :
    \E c \in {Chunk(0, n)} :
      \E res \in {shake128(o, c)} : OneShot("shake128", SHAKE128_RATE, o, c, res)

Shake256(lens, outlens) ==
  \E n \in lens, o \in outlens :
    \E c \in {Chunk(0, n)} :
      \E res \in {shake256(o, c)} : OneShot("shake256", SHAKE256_RATE, o, c, res)

Sha3_256(lens) ==
  \E n \in lens :
    \E c \in {Chunk(0, n)} :
      \E res \in {sha3_256(c)} : OneShot("sha3_256", SHA3_256_RATE, 32, c, res)

Sha3_512(lens) ==
  \E n \in lens :
    \E c \in {Chunk(0, n)} :
      \E res \in {sha3_512(c)} : OneShot("sha3_512", SHA3_512_RATE, 64, c, res)

(***************************************************************************)
(* SpecAbsorb: the input phase.  init, then absorb calls, then finalize.   *)
(***************************************************************************)
AbsorbLens == {0, 1, rate - 1, rate, rate + 1}

Sha3_256Lens == {0, 1, SHA3_256_RATE - 1, SHA3_256_RATE, SHA3_256_RATE + 1}
Sha3_512Lens == {0, 1, SHA3_512_RATE - 1, SHA3_512_RATE, SHA3_512_RATE + 1}

NextAbsorb ==
  \/ phase = "absorbing" /\ Absorb(AbsorbLens)
  \/ phase = "absorbing" /\ Finalize
  \/ calls = 0 /\ Sha3_256(Sha3_256Lens)
  \/ calls = 0 /\ Sha3_512(Sha3_512Lens)

SpecAbsorb == InitSponge /\ [][NextAbsorb]_vars

\* Byte b (0..199) of a state array, and the bits of a byte
StateByte(st, b) == LaneByte(st[(b \div 8) + 1], b % 8)
Bits8(x) == {k \in 0..7 : (x \div (2 ^ k)) % 2 = 1}

\* after is before with byte d XORed into byte p and 0x80 into byte r-1,
\* and nothing else changed
PaddedAt(before, p, r, d, after) ==
  \A b \in 0..199 :
    Bits8(StateByte(after, b))
      = XOR(XOR(Bits8(StateByte(before, b)), IF b = p THEN Bits8(d) ELSE {}),
            IF b = r - 1 THEN Bits8(128) ELSE {})

\* C1: for both rates, init, absorb of each chunk of the input in order
\* (empty chunks included) and finalize leave the same 25 lanes and the same
\* cursor, the rate, as one absorb_once call on the concatenated input.
C1_ChunkedAbsorbIsAbsorbOnce ==
  (op = "finalize" /\ phase = "squeezing") =>
    \A once \in {shake_absorb_once(rate, msg)} :
      /\ s = once.s
      /\ pos = once.pos
      /\ pos = rate

\* a message of two blocks less one byte, absorbed in two calls and finalized
C1_Witness ==
  /\ op = "finalize" /\ phase = "squeezing"
  /\ calls = 3
  /\ Len(msg) = 2 * rate - 1
  /\ perms = 1

\* C5: when the absorb calls after init total a positive multiple m of the
\* rate, finalize sees cursor 0, m permutations have been applied, and the
\* domain byte goes into byte 0 of the block; lane rate/8, where byte offset
\* rate lies, is not touched.
C5_FinalizeAfterWholeBlocks ==
  (op = "finalize" /\ phase = "squeezing" /\ Len(msg) > 0 /\ Len(msg) % rate = 0) =>
    /\ pre.pos = 0
    /\ perms = Len(msg) \div rate
    /\ ret.idx = {0, (rate - 1) \div 8}
    /\ (rate \div 8) \notin ret.idx
    /\ PaddedAt(pre.s, 0, rate, 31, s)

\* two whole blocks absorbed, then finalize
C5_Witness ==
  /\ op = "finalize" /\ phase = "squeezing"
  /\ Len(msg) = 2 * rate
  /\ perms = 2

\* C6: finalize at a cursor below the rate XORs 0x1F into byte pos and 0x80
\* into byte rate-1 (bit 63 of lane rate/8-1) and changes nothing else, does
\* not permute, and sets the cursor to the rate; at pos = rate-1 that byte
\* gets both, 0x9F.  sha3_256 and sha3_512 pad the absorbed state in the same
\* way with 0x06.
C6_FinalizeTwoXors ==
  /\ (op = "finalize" /\ pre.pos < rate) =>
       /\ PaddedAt(pre.s, pre.pos, rate, 31, s)
       /\ ret.nperm = 0
       /\ pos = rate
       /\ ((rate - 1) \div 8 = rate \div 8 - 1) /\ (63 \in s[rate \div 8] <=> 63 \notin pre.s[rate \div 8])
       /\ pre.pos = rate - 1 =>
            Bits8(StateByte(s, rate - 1))
              = XOR(Bits8(StateByte(pre.s, rate - 1)), Bits8(159))
  /\ (op \in {"sha3_256", "sha3_512"}) =>
       \A a \in {keccak_absorb(keccak_init, 0, rate, in)} :
         /\ a.pos < rate
         /\ PaddedAt(a.s, a.pos, rate, 6, fin.s)

\* finalize with the cursor on the last byte of the block
C6_Witness ==
  /\ op = "finalize"
  /\ pre.pos = rate - 1
  /\ Len(msg) = 2 * rate - 1

(***************************************************************************)
(* SpecSqueeze: init, absorb calls, finalize, then squeeze calls.          *)
(***************************************************************************)
SqueezeLens == {0, 1, rate - 1, rate, rate + 1}

NextSqueeze ==
  \/ phase = "absorbing" /\ Absorb({3, rate})
  \/ phase = "absorbing" /\ Finalize
  \/ phase = "squeezing" /\ Squeeze(SqueezeLens)

SpecSqueeze == InitSponge /\ [][NextSqueeze]_vars

\* C2: after finalize the squeeze calls made so far have emitted the same
\* bytes, and left the same lanes and cursor, as one squeeze of their total
\* length.  A call emits outlen bytes; it permutes once each time the cursor
\* is at the rate and output is still owed, and not otherwise; with no
\* permutation its bytes are those of the state from the cursor on.
C2_SqueezeIsAStream ==
  (op = "squeeze" /\ phase = "squeezing") =>
    /\ \A one \in {shake_squeeze(Len(out), fin.s, fin.pos, rate)} :
         /\ out = one.out
         /\ s = one.s
         /\ pos = one.pos
    /\ Len(ret.out) = outlen
    /\ ret.nperm = IF outlen <= rate - pre.pos THEN 0
                   ELSE (outlen - (rate - pre.pos) + rate - 1) \div rate
    /\ ret.nperm = 0 =>
         /\ s = pre.s
         /\ \A j \in 1..outlen : ret.out[j] = StateByte(pre.s, pre.pos + j - 1)

\* squeeze(1) then squeeze(rate): the second call crosses into the next block
C2_Witness ==
  /\ op = "squeeze" /\ phase = "squeezing"
  /\ pre.pos = 1
  /\ outlen = rate
  /\ Len(out) = rate + 1
  /\ ret.nperm = 1

(***************************************************************************)
(* SpecCalls: one state, one rate, and the five calls in any order.        *)
(***************************************************************************)
NextCalls ==
  \/ Absorb({0, 1, rate})
  \/ Finalize
  \/ Squeeze({1, rate})
  \/ AbsorbOnce({rate + 1})
  \/ SqueezeBlocks({1})

SpecCalls == InitSponge /\ [][NextCalls]_vars

\* C4: on a state used with one rate, after init and any sequence of absorb,
\* finalize, squeeze, absorb_once and squeezeblocks calls the cursor is in
\* 0..rate, every index used to subscript the lanes is below 25, and after an
\* absorb call the cursor is below the rate.
C4_CursorAndLanesInRange ==
  /\ 0 <= pos /\ pos <= rate
  /\ \A i \in ret.idx : 0 <= i /\ i < 25
  /\ op = "absorb" => pos < rate

\* an empty absorb on a finalized state: the cursor was the rate and is 0
C4_Witness ==
  /\ op = "absorb"
  /\ pre.pos = rate
  /\ in = << >>
  /\ ret.nperm = 1
  /\ pos = 0
  /\ phase = "misused"

(***************************************************************************)
(* SpecOneShot: one call of a one-shot function.                           *)
(***************************************************************************)
ShakeIn(r) == {0, 1, 2, r - 1, r, r + 1, 2 * r}
ShakeOut(r) == {0, 1, 32, r - 1, r, r + 1, 2 * r, 2 * r + 1}

NextOneShot ==
  \/ calls = 0 /\ Shake128(ShakeIn(SHAKE128_RATE), ShakeOut(SHAKE128_RATE))
  \/ calls = 0 /\ Shake256(ShakeIn(SHAKE256_RATE), ShakeOut(SHAKE256_RATE))
  \/ calls = 0 /\ Sha3_256(Sha3_256Lens)
  \/ calls = 0 /\ Sha3_512(Sha3_512Lens)

SpecOneShot == InitSponge /\ [][NextOneShot]_vars

\* C3: for every input and every outlen (0, multiples of the rate and other
\* lengths), shake128 and shake256 write exactly the outlen bytes that init,
\* absorb of the input, finalize and squeeze(outlen) of the same rate emit.
C3_OneShotIsIncremental ==
  (op \in {"shake128", "shake256"}) =>
    /\ Len(out) = outlen
    /\ \A a \in {shake_absorb(shake_init.s, shake_init.pos, rate, in)} :
         \A f \in {shake_finalize(a.s, a.pos, rate)} :
           \A q \in {shake_squeeze(outlen, f.s, f.pos, rate)} :
             out = q.out

\* shake128 of a block and a byte, for two blocks and a byte of output
C3_Witness ==
  /\ op = "shake128"
  /\ Len(in) = SHAKE128_RATE + 1
  /\ outlen = 2 * SHAKE128_RATE + 1
  /\ Len(out) = outlen
  /\ perms = 4

\* SHA3-256("") = a7ffc6f8 ... 80f8434a
SHA3_256_Empty ==
  << 167, 255, 198, 248, 191, 30, 215, 102, 81, 193, 71, 86, 160, 97, 214, 98,
     245, 128, 255, 77, 228, 59, 73, 250, 130, 216, 10, 75, 128, 248, 67, 74 >>

\* SHA3-512("") = a69f73cc ... 281dcd26
SHA3_512_Empty ==
  << 166, 159, 115, 204, 162, 58, 154, 197, 200, 181, 103, 220, 24, 90, 117, 110,
     151, 201, 130, 22, 79, 226, 88, 89, 224, 209, 220, 193, 71, 92, 128, 166,
     21, 178, 18, 58, 241, 245, 249, 76, 17, 227, 233, 64, 44, 58, 197, 88,
     245, 0, 25, 157, 149, 182, 211, 227, 1, 117, 133, 134, 40, 29, 205, 38 >>

\* SHAKE128("", 32) = 7f9c2ba4 ... fa66ef26
SHAKE128_Empty32 ==
  << 127, 156, 43, 164, 232, 143, 130, 125, 97, 96, 69, 80, 118, 5, 133, 62,
     215, 59, 128, 147, 246, 239, 188, 136, 235, 26, 110, 172, 250, 102, 239, 38 >>

\* SHAKE256("", 32) = 46b9dd2b ... 6ed5762f
SHAKE256_Empty32 ==
  << 70, 185, 221, 43, 11, 168, 141, 19, 35, 59, 63, 235, 116, 62, 235, 36,
     63, 205, 82, 234, 98, 184, 27, 130, 181, 12, 39, 100, 110, 213, 118, 47 >>

\* C7: on the empty input sha3_256, sha3_512, shake128 with outlen 32 and
\* shake256 with outlen 32 give the published digests.
C7_EmptyInputVectors ==
  /\ (op = "sha3_256" /\ in = << >>) => out = SHA3_256_Empty
  /\ (op = "sha3_512" /\ in = << >>) => out = SHA3_512_Empty
  /\ (op = "shake128" /\ in = << >> /\ outlen = 32) => out = SHAKE128_Empty32
  /\ (op = "shake256" /\ in = << >> /\ outlen = 32) => out = SHAKE256_Empty32

\* sha3_512 of the empty input has been computed
C7_Witness ==
  /\ op = "sha3_512"
  /\ in = << >>
  /\ Len(out) = 64
  /\ perms = 1

(***************************************************************************)
(* The vector layer.  The parameters of the three builds:                  *)
(***************************************************************************)
Modes == {2, 3, 5}
K == CASE mode = 2 -> 4 [] mode = 3 -> 6 [] mode = 5 -> 8
L == CASE mode = 2 -> 4 [] mode = 3 -> 5 [] mode = 5 -> 7
GAMMA2 == IF mode = 2 THEN (Q - 1) \div 88 ELSE (Q - 1) \div 32

(***************************************************************************)
(* The objects of the caller.  Vectors of length K: uk and vk hold any     *)
(* coefficients below 2^30 in magnitude, rk coefficients in [0, Q), hk     *)
(* hint bits, tk coefficients in [0, 2^10); vectors of length L: ul and vl *)
(* with coefficients in (-Q, Q); the polynomial c; the seed rho.  wk, w0k, *)
(* wl, w and prod are outputs the caller has not written yet.              *)
(***************************************************************************)
\* the builds and the data they are run on: << DILITHIUM_MODE, seed of the data >>
Configs == {<< 2, 0 >>, << 2, 1 >>, << 3, 1 >>, << 5, 1 >>}

Vec(name) == << name, 0 >>
Poly(name) == << name, 0, 0 >>

\* coefficient n of polynomial i of the o-th object, in lo .. lo + width - 1
Coefficient(sd, o, i, n, lo, width) ==
  LET x == sd * 911 + o * 7331 + i * 1013 + n * n * 7 + n * 4099 + 17
      y == (x * 1021) % 1000003
  IN  lo + (((y * 2003) + (x % 2003)) % width)

Objects ==
  [uk |-> << 1, -1073741823, 2147483647 >>, vk |-> << 2, -1073741823, 2147483647 >>,
   rk |-> << 3, 0, Q >>, hk |-> << 4, 0, 2 >>, tk |-> << 5, 0, 1024 >>,
   ul |-> << 6, 1 - Q, 2 * Q - 1 >>, vl |-> << 7, 1 - Q, 2 * Q - 1 >>,
   c |-> << 8, 1 - Q, 2 * Q - 1 >>]

Rows(name, k, l) ==
  IF name \in {"uk", "vk", "rk", "hk", "tk"} THEN k
  ELSE IF name \in {"ul", "vl"} THEN l ELSE 1

InitHeap(sd, k, l) ==
  LET names == DOMAIN Objects
      addrs == {<< name, 0, i >> : name \in names, i \in 0..(k - 1)}
      used == {a \in addrs : a[3] < Rows(a[1], k, l)}
      Value(a) == [n \in 1..N |->
                     Coefficient(sd, Objects[a[1]][1], a[3], n - 1,
                                 Objects[a[1]][2], Objects[a[1]][3])]
  IN  [a \in used \cup {Poly("rho")} |->
         IF a = Poly("rho") THEN [n \in 1..SEEDBYTES |-> (sd * (37 * n + 11)) % 256]
         ELSE Value(a)]

InitVec ==
  /\ SpongeAt(SHAKE128_RATE)
  /\ \E cf \in Configs :
       /\ mode = cf[1]
       /\ heap = InitHeap(cf[2], K, L)
  /\ vop = NoCall
  /\ vpre = << >>
  /\ vcalls = << >>
  /\ vret = << >>

\* the call name(outs, ins) of the caller, on memory h
VecApply(h, name, outs, ins, k, l, gamma2) ==
  CASE name = "polyvec_matrix_expand" ->
         polyvec_matrix_expand(h, outs[1], ins[1], k, l).h
    [] name = "polyvec_matrix_pointwise_montgomery" ->
         polyvec_matrix_pointwise_montgomery(h, outs[1], ins[1], ins[2], k, l)
    [] name = "polyvecl_reduce" -> polyvecl_reduce(h, outs[1], l)
    [] name = "polyvecl_add" -> polyvecl_add(h, outs[1], ins[1], ins[2], l)
    [] name = "polyvecl_pointwise_poly_montgomery" ->
         polyvecl_pointwise_poly_montgomery(h, outs[1], ins[1], ins[2], l)
    [] name = "polyvecl_pointwise_acc_montgomery" ->
         polyvecl_pointwise_acc_montgomery(h, outs[1], ins[1], ins[2], l)
    [] name = "polyveck_reduce" -> polyveck_reduce(h, outs[1], k)
    [] name = "polyveck_caddq" -> polyveck_caddq(h, outs[1], k)
    [] name = "polyveck_add" -> polyveck_add(h, outs[1], ins[1], ins[2], k)
    [] name = "polyveck_sub" -> polyveck_sub(h, outs[1], ins[1], ins[2], k)
    [] name = "polyveck_shiftl" -> polyveck_shiftl(h, outs[1], k)
    [] name = "polyveck_pointwise_poly_montgomery" ->
         polyveck_pointwise_poly_montgomery(h, outs[1], ins[1], ins[2], k)
    [] name = "polyveck_power2round" ->
         polyveck_power2round(h, outs[1], outs[2], ins[1], k)
    [] name = "polyveck_decompose" ->
         polyveck_decompose(h, outs[1], outs[2], ins[1], k, gamma2)
    [] name = "polyveck_use_hint" ->
         polyveck_use_hint(h, outs[1], ins[1], ins[2], k, gamma2)

\* One call on the objects as the caller has set them up
Call(name, outs, ins) ==
  /\ vop.name = "none"
  /\ \E h1 \in {VecApply(heap, name, outs, ins, K, L, GAMMA2)} : heap' = h1
  /\ vop' = [name |-> name, outs |-> outs, ins |-> ins]
  /\ vpre' = heap
  /\ vcalls' = << >>
  /\ vret' = << >>
  /\ UNCHANGED << mode, spongeVars >>

PolyvecMatrixExpand ==
  /\ vop.name = "none"
  /\ \E res \in {polyvec_matrix_expand(heap, "mat", Poly("rho"), K, L)} :
       /\ heap' = res.h
       /\ vcalls' = res.calls
  /\ vop' = [name |-> "polyvec_matrix_expand", outs |-> << "mat" >>, ins |-> << Poly("rho") >>]
  /\ vpre' = heap
  /\ vret' = << >>
  /\ UNCHANGED << mode, spongeVars >>

\* t = A v on the matrix expanded before
PolyvecMatrixPointwiseMontgomery ==
  /\ vop.name = "polyvec_matrix_expand"
  /\ \E h1 \in {polyvec_matrix_pointwise_montgomery(heap, Vec("prod"), "mat", Vec("vl"), K, L)} :
       heap' = h1
  /\ vop' = [name |-> "polyvec_matrix_pointwise_montgomery",
             outs |-> << Vec("prod") >>, ins |-> << "mat", Vec("vl") >>]
  /\ vpre' = heap
  /\ vcalls' = << >>
  /\ vret' = << >>
  /\ UNCHANGED << mode, spongeVars >>

PolyveclReduce == \E v \in {Vec("ul"), Vec("vl")} : Call("polyvecl_reduce", << v >>, << v >>)

PolyveclAdd ==
  \E w \in {Vec("wl"), Vec("ul"), Vec("vl")} :
    Call("polyvecl_add", << w >>, << Vec("ul"), Vec("vl") >>)

PolyveclPointwisePolyMontgomery ==
  \E r \in {Vec("wl"), Vec("vl")} :
    Call("polyvecl_pointwise_poly_montgomery", << r >>, << Poly("c"), Vec("vl") >>)

PolyveclPointwiseAccMontgomery ==
  \E w \in {Poly("w")} \cup {Elem(v, j) : v \in {Vec("ul"), Vec("vl")}, j \in 0..(L - 1)} :
    Call("polyvecl_pointwise_acc_montgomery", << w >>, << Vec("ul"), Vec("vl") >>)

PolyveckReduce == \E v \in {Vec("uk"), Vec("vk")} : Call("polyveck_reduce", << v >>, << v >>)

PolyveckCaddq == \E v \in {Vec("uk"), Vec("vk")} : Call("polyveck_caddq", << v >>, << v >>)

PolyveckAdd ==
  \E w \in {Vec("wk"), Vec("uk"), Vec("vk")} :
    Call("polyveck_add", << w >>, << Vec("uk"), Vec("vk") >>)

PolyveckSub ==
  \E w \in {Vec("wk"), Vec("uk"), Vec("vk")} :
    Call("polyveck_sub", << w >>, << Vec("uk"), Vec("vk") >>)

PolyveckShiftl == Call("polyveck_shiftl", << Vec("tk") >>, << Vec("tk") >>)

PolyveckPointwisePolyMontgomery ==
  \E r \in {Vec("wk"), Vec("vk")} :
    Call("polyveck_pointwise_poly_montgomery", << r >>, << Poly("c"), Vec("vk") >>)

PolyveckPower2round ==
  \E o \in {<< Vec("wk"), Vec("w0k") >>, << Vec("rk"), Vec("w0k") >>, << Vec("wk"), Vec("rk") >>} :
    Call("polyveck_power2round", o, << Vec("rk") >>)

PolyveckDecompose ==
  \E o \in {<< Vec("wk"), Vec("w0k") >>, << Vec("rk"), Vec("w0k") >>, << Vec("wk"), Vec("rk") >>} :
    Call("polyveck_decompose", o, << Vec("rk") >>)

PolyveckUseHint ==
  \E w \in {Vec("wk"), Vec("rk"), Vec("hk")} :
    Call("polyveck_use_hint", << w >>, << Vec("rk"), Vec("hk") >>)

NextVec ==
  \/ PolyvecMatrixExpand
  \/ PolyvecMatrixPointwiseMontgomery
  \/ PolyveclReduce
  \/ PolyveclAdd
  \/ PolyveclPointwisePolyMontgomery
  \/ PolyveclPointwiseAccMontgomery
  \/ PolyveckReduce
  \/ PolyveckCaddq
  \/ PolyveckAdd
  \/ PolyveckSub
  \/ PolyveckShiftl
  \/ PolyveckPointwisePolyMontgomery
  \/ PolyveckPower2round
  \/ PolyveckDecompose
  \/ PolyveckUseHint

SpecVec == InitVec /\ [][NextVec]_vars

(***************************************************************************)
(* Matrix expansion and the matrix-vector product                          *)
(***************************************************************************)
\* x | y for 0 <= x, y < 2^16, bit by bit
BitOr(x, y) ==
  LET Bit(z, b) == (z \div (2 ^ b)) % 2
      RECURSIVE Upto(_)
      Upto(b) == IF b = 16 THEN 0
                 ELSE (IF Bit(x, b) + Bit(y, b) > 0 THEN 2 ^ b ELSE 0) + Upto(b + 1)
  IN  Upto(0)

\* the polynomial sampled from the first 5 blocks of the stream SHAKE128(input)
UniformFrom(input) ==
  LET First(coeffs) == SubSeq(coeffs, 1, N)
  IN  First(rej_uniform(shake128(5 * SHAKE128_RATE, input).out))

\* C8: polyvec_matrix_expand calls poly_uniform exactly once for every entry
\* (i, j) of the K x L matrix, with nonce (i << 8) | j = (i << 8) + j, whose
\* little-endian bytes are (j, i): mat[i].vec[j] is the polynomial sampled from
\* SHAKE128(rho | j | i).  The nonces of distinct entries differ, and rho is
\* not modified.
C8_MatrixExpand ==
  vop.name = "polyvec_matrix_expand" =>
    /\ Len(vcalls) = K * L
    /\ \A i \in 0..(K - 1), j \in 0..(L - 1) :
         /\ Cardinality({n \in 1..Len(vcalls) : vcalls[n][1] = << "mat", i, j >>}) = 1
         /\ \A n \in 1..Len(vcalls) :
              vcalls[n][1] = << "mat", i, j >> =>
                /\ vcalls[n][2] = BitOr(i * 256, j)
                /\ vcalls[n][2] = i * 256 + j
                /\ << vcalls[n][2] % 256, vcalls[n][2] \div 256 >> = << j, i >>
         /\ heap[<< "mat", i, j >>] = UniformFrom(vpre[Poly("rho")] \o << j, i >>)
    /\ \A m, n \in 1..Len(vcalls) : m # n => vcalls[m][2] # vcalls[n][2]
    /\ heap[Poly("rho")] = vpre[Poly("rho")]

\* The largest matrix has been expanded and its entries differ
C8_Witness ==
  /\ vop.name = "polyvec_matrix_expand"
  /\ mode = 5
  /\ Len(vcalls) = 56
  /\ heap[<< "mat", 7, 6 >>] # heap[<< "mat", 6, 7 % L >>]
  /\ \E n \in 1..SEEDBYTES : heap[Poly("rho")][n] # 0

\* coefficient n of the sum over j < l of mat[i].vec[j] * v.vec[j] (pointwise,
\* Montgomery), added as integers
RECURSIVE DotProduct(_, _, _, _)
DotProduct(h, i, n, l) ==
  IF l = 0 THEN 0
  ELSE DotProduct(h, i, n, l - 1)
       + montgomery_reduce(Mul64(h[<< "mat", i, l - 1 >>][n], h[<< "vl", 0, l - 1 >>][n]))

\* C9: polyvec_matrix_pointwise_montgomery makes t[i] the sum over j = 0..L-1
\* of poly_pointwise_montgomery(mat[i].vec[j], v.vec[j]) in every coefficient,
\* by integer addition without reduction, every j once; mat and v keep their
\* values.
C9_MatrixPointwise ==
  vop.name = "polyvec_matrix_pointwise_montgomery" =>
    /\ \A i \in 0..(K - 1) : \A n \in 1..N :
         heap[<< "prod", 0, i >>][n] = DotProduct(vpre, i, n, L)
    /\ \A a \in DOMAIN vpre : a[1] \in {"mat", "vl"} => heap[a] = vpre[a]

\* A product has been computed whose rows are not all the same
C9_Witness ==
  /\ vop.name = "polyvec_matrix_pointwise_montgomery"
  /\ mode = 3
  /\ heap[<< "prod", 0, 0 >>] # heap[<< "prod", 0, K - 1 >>]
  /\ \E n \in 1..N : heap[<< "prod", 0, K - 1 >>][n] > Q

(***************************************************************************)
(* Aliasing.  The last call is compared with the same call on the same     *)
(* memory with outputs f1, f0 that are no object of the caller; for an     *)
(* operation with one in-out argument, with the call on a copy f1 of it.   *)
(***************************************************************************)
InPlace == {"polyvecl_reduce", "polyveck_reduce", "polyveck_caddq", "polyveck_shiftl"}

Listed ==
  InPlace \cup
  {"polyvecl_add", "polyvecl_pointwise_poly_montgomery", "polyvecl_pointwise_acc_montgomery",
   "polyveck_add", "polyveck_sub", "polyveck_pointwise_poly_montgomery",
   "polyveck_power2round", "polyveck_decompose", "polyveck_use_hint"}

VecLen(name) ==
  IF name \in {"polyvecl_reduce", "polyvecl_add", "polyvecl_pointwise_poly_montgomery"}
  THEN L ELSE K

IsAcc(call) == call.name = "polyvecl_pointwise_acc_montgomery"

FreshOuts(call) ==
  IF IsAcc(call) THEN << Poly("f1") >>
  ELSE IF Len(call.outs) = 2 THEN << Vec("f1"), Vec("f0") >> ELSE << Vec("f1") >>

Copy(h, from, to, len) ==
  [a \in (DOMAIN h) \cup {Elem(to, i) : i \in 0..(len - 1)} |->
     IF a[1] = to[1] THEN h[Elem(from, a[3])] ELSE h[a]]

\* memory after the call made with distinct output objects
Distinct(call) ==
  IF call.name \in InPlace
  THEN VecApply(Copy(vpre, call.ins[1], Vec("f1"), VecLen(call.name)), call.name,
                << Vec("f1") >>, << Vec("f1") >>, K, L, GAMMA2)
  ELSE VecApply(vpre, call.name, FreshOuts(call), call.ins, K, L, GAMMA2)

\* an output of the call is one of its inputs
Aliased(call) ==
  IF IsAcc(call)
  THEN \E j \in 0..(L - 1) : call.outs[1] \in {Elem(call.ins[1], j), Elem(call.ins[2], j)}
  ELSE \E o \in 1..Len(call.outs), n \in 1..Len(call.ins) : call.outs[o] = call.ins[n]

SameOutput(call, ref) ==
  IF IsAcc(call) THEN heap[call.outs[1]] = ref[Poly("f1")]
  ELSE \A o \in 1..Len(call.outs) : \A i \in 0..(VecLen(call.name) - 1) :
         heap[Elem(call.outs[o], i)] = ref[Elem(FreshOuts(call)[o], i)]

\* The statement for every listed operation and, for pointwise_acc, w any
\* u.vec[j] or v.vec[j], j in 0..L-1
C10_AliasingAnyElement ==
  (vop.name \in Listed /\ Aliased(vop)) =>
    \A ref \in {Distinct(vop)} : SameOutput(vop, ref)

\* C10: for each listed vector operation, the call with an output object that
\* is one of its inputs (for pointwise_acc: w being u.vec[0] or v.vec[0])
\* yields the same output value as the call with distinct output objects.
C10_AliasingPermitted ==
  (/\ vop.name \in Listed
   /\ Aliased(vop)
   /\ IsAcc(vop) => vop.outs[1] \in {Elem(vop.ins[1], 0), Elem(vop.ins[2], 0)}) =>
    \A ref \in {Distinct(vop)} : SameOutput(vop, ref)

\* pointwise_acc has written its result over u.vec[0]
C10_Witness ==
  /\ IsAcc(vop)
  /\ vop.outs[1] = Elem(vop.ins[1], 0)
  /\ heap[vop.outs[1]] # vpre[vop.outs[1]]
  /\ mode = 5

(***************************************************************************)
(* Rounding, hints and the norm check.  The other parameters of the builds *)
(***************************************************************************)
ETA == IF mode = 3 THEN 4 ELSE 2
BETA == CASE mode = 2 -> 78 [] mode = 3 -> 196 [] mode = 5 -> 120
GAMMA1 == IF mode = 2 THEN 2 ^ 17 ELSE 2 ^ 19
OMEGA == CASE mode = 2 -> 80 [] mode = 3 -> 55 [] mode = 5 -> 75

\* The packed sizes in bytes
POLYT1_PACKEDBYTES == 320
POLYT0_PACKEDBYTES == 416
POLYVECH_PACKEDBYTES == OMEGA + K

\* the two sizes of a packed z taken for each other
POLYZ_PACKEDBYTES_swapped == IF GAMMA1 = 2 ^ 17 THEN 640 ELSE 576

POLYZ_PACKEDBYTES == IF GAMMA1 = 2 ^ 17 THEN 576 ELSE 640
POLYW1_PACKEDBYTES == IF GAMMA2 = (Q - 1) \div 88 THEN 192 ELSE 128
POLYETA_PACKEDBYTES == IF ETA = 2 THEN 96 ELSE 128

(***************************************************************************)
(* Vectors a norm check is made on: zl and yl of length L, zk and yk of    *)
(* length K, centrally reduced.  Their coefficients are below NormNoise in *)
(* magnitude but for one coefficient, the peak, of one polynomial: in zl   *)
(* -(GAMMA2 - BETA) in the last polynomial, in yl GAMMA2 - 1 in the first, *)
(* in zk GAMMA1 - BETA in a polynomial in between; yk has no peak.         *)
(***************************************************************************)
NormNoise == 60000

NormObjects ==
  [zl |-> << 11, L, L - 1, BETA - GAMMA2 >>,
   yl |-> << 12, L, 0, GAMMA2 - 1 >>,
   zk |-> << 13, K, 1, GAMMA1 - BETA >>,
   yk |-> << 14, K, K, 0 >>]

NormHeap(sd) ==
  LET addrs == {<< name, 0, i >> : name \in DOMAIN NormObjects, i \in 0..(K - 1)}
      used == {a \in addrs : a[3] < NormObjects[a[1]][2]}
      Peak(a) == IF NormObjects[a[1]][1] = 13 THEN NormObjects[a[1]][3] + sd
                 ELSE NormObjects[a[1]][3]
      Value(a) == [n \in 1..N |->
                     IF a[3] = Peak(a) /\ n = 17 * a[3] + 3 THEN NormObjects[a[1]][4]
                     ELSE Coefficient(sd, NormObjects[a[1]][1], a[3], n - 1,
                                      1 - NormNoise, 2 * NormNoise - 1)]
  IN  [a \in used |-> Value(a)]

\* dk: a vector of length K of perturbations, coefficients in [-GAMMA2, GAMMA2]
HintHeap(sd) ==
  [a \in {<< "dk", 0, i >> : i \in 0..(K - 1)} |->
     [n \in 1..N |-> Coefficient(sd, 15, a[3], n - 1, -GAMMA2, 2 * GAMMA2 + 1)]]

(***************************************************************************)
(* The 32-bit values reduce32 is called on, a + 2^22 within int32_t: the   *)
(* ends of that range, the values about the steps of t = (a + 2^22) >> 23  *)
(* for the least and the greatest t, and small values.                     *)
(***************************************************************************)
ReduceSamples ==
  << -2147483647 - 1, -2147483647, -2143289345, -2143289344, -2143289343, -2134900737,
     -2134900736, -2134900735, -12582913, -12582912, -(2 * Q), -Q - 1, -Q, 1 - Q, -6283009,
     -6283008, -4194305, -4194304, -4194303, -1, 0, 1, 4194303, 4194304, 4194305, 6283008,
     6283009, Q - 1, Q, Q + 1, 2 * Q, 12582911, 12582912, 2134900735, 2134900736, 2143289342,
     2143289343 >>

\* ek: a vector of length K of such values, and ek0, the copy of it the caller keeps
ReduceHeap(sd) ==
  LET Wide(i, n) == IF (i + n + sd) % 2 = 0
                   THEN Coefficient(sd, 17, i, n, 0, 2143289344)
                   ELSE -1 - Coefficient(sd, 17, i, n, 0, 2147483647)
      Value(i) == [n \in 1..N |->
                     IF n <= Len(ReduceSamples) /\ i \in {0, K - 1} THEN ReduceSamples[n]
                     ELSE Wide(i, n)]
  IN  [a \in {<< name, 0, i >> : name \in {"ek", "ek0"}, i \in 0..(K - 1)} |-> Value(a[3])]

InitRound ==
  /\ SpongeAt(SHAKE128_RATE)
  /\ \E cf \in Configs :
       /\ mode = cf[1]
       /\ heap = InitHeap(cf[2], K, L) @@ NormHeap(cf[2]) @@ HintHeap(cf[2]) @@ ReduceHeap(cf[2])
  /\ vop = NoCall
  /\ vpre = << >>
  /\ vcalls = << >>
  /\ vret = << >>

\* A call that writes nothing: its arguments, the value it returns and the calls logged
Returns(name, ins, value, log) ==
  /\ vop' = [name |-> name, outs |-> << >>, ins |-> ins]
  /\ vret' = value
  /\ vcalls' = log
  /\ vpre' = heap
  /\ UNCHANGED << heap, mode, spongeVars >>

\* the bounds the norm is checked against
NormBounds == {1, GAMMA2 - BETA, GAMMA2, GAMMA1 - BETA, (Q - 1) \div 8}

PolyveclChknorm ==
  /\ vop.name = "none"
  /\ \E v \in {Vec("zl"), Vec("yl")}, B \in NormBounds :
       \E res \in {polyvecl_chknorm(heap, v, B, L)} :
         Returns("polyvecl_chknorm", << v, B >>, res.ret, res.calls)

PolyveckChknorm ==
  /\ vop.name = "none"
  /\ \E v \in {Vec("zk"), Vec("yk")}, B \in NormBounds :
       \E res \in {polyveck_chknorm(heap, v, B, K)} :
         Returns("polyveck_chknorm", << v, B >>, res.ret, res.calls)

(***************************************************************************)
(* The coefficients the functions of one coefficient are called on: the    *)
(* ends of [0, Q), the values about the rounding boundaries of power2round *)
(* and of decompose, and values spread over the range.                     *)
(***************************************************************************)
NearBoundaries(half, cs) ==
  {c * 2 * half + half + e : c \in cs, e \in {-2, -1, 0, 1, 2}}

MaxSpread == 150

CoeffSamples ==
  {a \in {0, 1, 2, Q - 2, Q - 1}
         \cup NearBoundaries(2 ^ (D - 1), {0, 1, 511, 1021, 1022})
         \cup NearBoundaries(GAMMA2, {0, 1, 7, 14, 15, 21, 42, 43})
         \cup {(n * 1299709 + 7919) % Q : n \in 0..(MaxSpread - 1)} : a \in 0..(Q - 1)}

\* a1 = power2round(&a0, a)
Power2round ==
  /\ vop.name = "none"
  /\ \E a \in CoeffSamples : Returns("power2round", << a >>, power2round(a), << >>)

\* a1 = decompose(&a0, a)
Decompose ==
  /\ vop.name = "none"
  /\ \E a \in CoeffSamples : Returns("decompose", << a >>, decompose(a, GAMMA2), << >>)

\* the perturbations of a coefficient, |d| <= GAMMA2
Perturbations ==
  {-GAMMA2, 1 - GAMMA2, -(GAMMA2 \div 2), -1, 0, 1, GAMMA2 \div 3, GAMMA2 - 1, GAMMA2}

\* h = make_hint(a0 + d, a1) on the parts decompose has returned for a
MakeHint ==
  /\ vop.name = "decompose"
  /\ \E d \in Perturbations :
       Returns("make_hint", << vret[2] + d, vret[1] >>, make_hint(vret[2] + d, vret[1], GAMMA2),
               << [a |-> vop.ins[1], a1 |-> vret[1], a0 |-> vret[2], d |-> d] >>)

\* use_hint(a + d mod Q, h) with the hint made
UseHint ==
  /\ vop.name = "make_hint"
  /\ \E c \in {vcalls[1]} :
       Returns("use_hint", << (c.a + c.d) % Q, vret >>,
               use_hint((c.a + c.d) % Q, vret, GAMMA2), vcalls)

(***************************************************************************)
(* Signing and verifying with a hint, on vectors: the caller decomposes rk *)
(* into wk and w0k, adds the perturbation dk to the low part w0k, makes    *)
(* the hints h1k of it; then adds dk to rk, reduces the sum sk to [0, Q)   *)
(* and uses the hints on it, giving ok.                                    *)
(***************************************************************************)
CallOf(name, outs, ins) == [name |-> name, outs |-> outs, ins |-> ins]

\* the call name(outs, ins) made after the call prev
Follow(prev, name, outs, ins) ==
  /\ vop = prev
  /\ \E h1 \in {VecApply(heap, name, outs, ins, K, L, GAMMA2)} : heap' = h1
  /\ vop' = CallOf(name, outs, ins)
  /\ vpre' = heap
  /\ vcalls' = << >>
  /\ vret' = << >>
  /\ UNCHANGED << mode, spongeVars >>

HintCalls ==
  << CallOf("polyveck_decompose", << Vec("wk"), Vec("w0k") >>, << Vec("rk") >>),
     CallOf("polyveck_add", << Vec("w0k") >>, << Vec("w0k"), Vec("dk") >>),
     CallOf("polyveck_make_hint", << Vec("h1k") >>, << Vec("w0k"), Vec("wk") >>),
     CallOf("polyveck_add", << Vec("sk") >>, << Vec("rk"), Vec("dk") >>),
     CallOf("polyveck_reduce", << Vec("sk") >>, << Vec("sk") >>),
     CallOf("polyveck_caddq", << Vec("sk") >>, << Vec("sk") >>),
     CallOf("polyveck_use_hint", << Vec("ok") >>, << Vec("sk"), Vec("h1k") >>) >>

HintAddLow == Follow(HintCalls[1], HintCalls[2].name, HintCalls[2].outs, HintCalls[2].ins)

PolyveckMakeHint ==
  /\ vop = HintCalls[2]
  /\ \E res \in {polyveck_make_hint(heap, Vec("h1k"), Vec("w0k"), Vec("wk"), K, GAMMA2)} :
       /\ heap' = res.h
       /\ vret' = res.ret
  /\ vop' = HintCalls[3]
  /\ vpre' = heap
  /\ vcalls' = << >>
  /\ UNCHANGED << mode, spongeVars >>

HintAdd == Follow(HintCalls[3], HintCalls[4].name, HintCalls[4].outs, HintCalls[4].ins)

HintReduce == Follow(HintCalls[4], HintCalls[5].name, HintCalls[5].outs, HintCalls[5].ins)

HintCaddq == Follow(HintCalls[5], HintCalls[6].name, HintCalls[6].outs, HintCalls[6].ins)

HintUseHint == Follow(HintCalls[6], HintCalls[7].name, HintCalls[7].outs, HintCalls[7].ins)

(***************************************************************************)
(* The 64-bit values montgomery_reduce is called on, |a| < Q 2^31: the     *)
(* products of an x with |x| < Q and an int32_t y, and the two ends        *)
(* Q 2^31 - 1 and 1 - Q 2^31.                                              *)
(***************************************************************************)
MontSamples ==
  {Mul64(x, y) : x \in {1 - Q, -4190208, -65537, -1, 0, 1, 2, 65535, 65536, 4190208, Q - 1},
                 y \in {-2147483647, -1073741824, -Q, -65537, -1, 0, 1, 3, 65536, Q - 1, Q,
                        1073741823, 2147483647}
                        \cup {Coefficient(3, 16, 0, n, -2147483647, 2147483647) : n \in 0..7}}
  \cup {<< 4190208, 32767, 65535 >>, << -4190209, 32768, 1 >>}

MontgomeryReduce ==
  /\ vop.name = "none"
  /\ \E a \in MontSamples : Returns("montgomery_reduce", << a >>, montgomery_reduce(a), << >>)

\* r = reduce32(a)
Reduce32 ==
  /\ vop.name = "none"
  /\ \E n \in 1..Len(ReduceSamples) :
       Returns("reduce32", << ReduceSamples[n] >>, reduce32(ReduceSamples[n]), << >>)

\* caddq(r) on the value reduce32 has returned for a
Caddq ==
  /\ vop.name = "reduce32"
  /\ Returns("caddq", << vret >>, caddq(vret), << [a |-> vop.ins[1]] >>)

\* polyveck_reduce(&ek); polyveck_caddq(&ek);
ReduceCalls ==
  << CallOf("polyveck_reduce", << Vec("ek") >>, << Vec("ek") >>),
     CallOf("polyveck_caddq", << Vec("ek") >>, << Vec("ek") >>) >>

ReduceThenCaddq ==
  \/ Follow(NoCall, ReduceCalls[1].name, ReduceCalls[1].outs, ReduceCalls[1].ins)
  \/ Follow(ReduceCalls[1], ReduceCalls[2].name, ReduceCalls[2].outs, ReduceCalls[2].ins)

(***************************************************************************)
(* Hint vectors given to the packer, of at most OMEGA 1 bits: none; one at *)
(* coefficient 5 of polynomial 0; OMEGA of them over all polynomials; four *)
(* in the last polynomial only; one in polynomial 1 and one in 2.          *)
(***************************************************************************)
HintShapes == {"none", "one", "full", "last", "middle"}

HintBits(shape, i) ==
  CASE shape = "none" -> {}
    [] shape = "one" -> IF i = 0 THEN {5} ELSE {}
    [] shape = "full" ->
         {(7 * j + i) % N : j \in 0..((OMEGA \div K) + (IF i = K - 1 THEN OMEGA % K ELSE 0) - 1)}
    [] shape = "last" -> IF i = K - 1 THEN {0, 1, 254, 255} ELSE {}
    [] shape = "middle" -> IF i = 1 THEN {255} ELSE IF i = 2 THEN {0} ELSE {}

HintVector(shape) == [i \in 1..K |-> [n \in 1..N |-> IF (n - 1) \in HintBits(shape, i - 1) THEN 1 ELSE 0]]

HintPack ==
  /\ vop.name = "none"
  /\ \E shape \in HintShapes :
       Returns("hint_pack", << HintVector(shape) >>, hint_pack(HintVector(shape), K, OMEGA), << >>)

(***************************************************************************)
(* The byte strings given to the unpacker: what the packer wrote, as it is *)
(* or with one change: the first two indices of the first segment that has *)
(* two exchanged, or the second made equal to the first; a running count   *)
(* lowered below the count before it; a running count raised above OMEGA.  *)
(***************************************************************************)
Changes == {"as it is", "exchanged", "repeated", "lowered", "raised", "raised to 255"}

\* the 0-based positions j where a segment holds indices j and j + 1
Pairs(sig) ==
  {j \in 0..(OMEGA - 2) :
     \E i \in 0..(K - 1) :
       /\ (IF i = 0 THEN 0 ELSE sig[OMEGA + i]) <= j
       /\ j + 1 < sig[OMEGA + i + 1]}

\* the polynomials whose running count can be lowered below the one before
Lowerable(sig) == {i \in 1..(K - 1) : sig[OMEGA + i] > 0}

Least(S) == CHOOSE x \in S : \A y \in S : x <= y

Changed(sig, change) ==
  CASE change = "as it is" -> sig
    [] change = "exchanged" ->
         IF Pairs(sig) = {} THEN sig
         ELSE [sig EXCEPT ![Least(Pairs(sig)) + 1] = sig[Least(Pairs(sig)) + 2],
                          ![Least(Pairs(sig)) + 2] = sig[Least(Pairs(sig)) + 1]]
    [] change = "repeated" ->
         IF Pairs(sig) = {} THEN sig
         ELSE [sig EXCEPT ![Least(Pairs(sig)) + 2] = sig[Least(Pairs(sig)) + 1]]
    [] change = "lowered" ->
         IF Lowerable(sig) = {} THEN sig
         ELSE [sig EXCEPT ![OMEGA + Least(Lowerable(sig)) + 1] = sig[OMEGA + Least(Lowerable(sig))] - 1]
    [] change = "raised" -> [sig EXCEPT ![OMEGA + K] = OMEGA + 1]
    [] change = "raised to 255" -> [sig EXCEPT ![OMEGA + 1] = 255]

\* unpacking what the packer has returned, changed or not
HintUnpack ==
  /\ vop.name = "hint_pack"
  /\ \E change \in Changes :
       Returns("hint_unpack", << Changed(vret, change) >>, hint_unpack(Changed(vret, change), K, OMEGA),
               << [h |-> vop.ins[1], sig |-> vret] >>)

NextRound ==
  \/ PolyveclChknorm
  \/ PolyveckChknorm
  \/ Power2round
  \/ PolyveckPower2round
  \/ Decompose
  \/ PolyveckDecompose
  \/ MakeHint
  \/ UseHint
  \/ MontgomeryReduce
  \/ Reduce32
  \/ Caddq
  \/ ReduceThenCaddq
  \/ HintPack
  \/ HintUnpack
  \/ PolyveclPointwisePolyMontgomery
  \/ PolyveckPointwisePolyMontgomery
  \/ HintAddLow
  \/ PolyveckMakeHint
  \/ HintAdd
  \/ HintReduce
  \/ HintCaddq
  \/ HintUseHint

SpecRound == InitRound /\ [][NextRound]_vars

(***************************************************************************)
(* The norm check                                                          *)
(***************************************************************************)
ChknormLen == IF vop.name = "polyvecl_chknorm" THEN L ELSE K

\* coefficients as poly_reduce leaves them
CentrallyReduced(h, v, len) ==
  \A i \in 0..(len - 1) : \A n \in 1..N : h[Elem(v, i)][n] \in -6283008..6283008

\* C11: on a centrally reduced vector and for a bound B <= (Q-1)/8,
\* polyvecl_chknorm and polyveck_chknorm return 0 or 1, and 1 exactly when some
\* coefficient of some polynomial of the vector has absolute value >= B, which
\* is when poly_chknorm is non-zero for some element; the vector is unchanged.
C11_Chknorm ==
  (/\ vop.name \in {"polyvecl_chknorm", "polyveck_chknorm"}
   /\ CentrallyReduced(vpre, vop.ins[1], ChknormLen)
   /\ vop.ins[2] <= (Q - 1) \div 8) =>
    /\ vret \in {0, 1}
    /\ (vret = 1) <=>
         (\E i \in 0..(ChknormLen - 1) : \E n \in 1..N :
            \/ vpre[Elem(vop.ins[1], i)][n] >= vop.ins[2]
            \/ -vpre[Elem(vop.ins[1], i)][n] >= vop.ins[2])
    /\ (vret = 1) <=>
         (\E i \in 0..(ChknormLen - 1) : poly_chknorm(vpre, Elem(vop.ins[1], i), vop.ins[2]) # 0)
    /\ heap = vpre

\* only the last polynomial of zl is out of bounds, by a coefficient equal to -B
C11_Witness ==
  /\ vop.name = "polyvecl_chknorm"
  /\ vop.ins = << Vec("zl"), GAMMA2 - BETA >>
  /\ mode = 3
  /\ vret = 1
  /\ \A i \in 0..(L - 2) : poly_chknorm(vpre, Elem(Vec("zl"), i), GAMMA2 - BETA) = 0
  /\ \E n \in 1..N : vpre[Elem(Vec("zl"), L - 1)][n] = BETA - GAMMA2

\* the vectors of the caller that have the length of the vector checked
SameLength == IF vop.name = "polyvecl_chknorm" THEN {Vec("zl"), Vec("yl")}
              ELSE {Vec("zk"), Vec("yk")}

\* C12: the norm check is timing-invariant: the call makes as many
\* per-polynomial checks as the same function makes, with the same bound, on any
\* other vector of the same length, whatever the coefficients and whichever
\* polynomial, if any, is out of bounds.
C12_ChknormSameSteps ==
  (vop.name \in {"polyvecl_chknorm", "polyveck_chknorm"}) =>
    \A v2 \in SameLength :
      Len(polyvec_chknorm(vpre, v2, vop.ins[2], ChknormLen).calls) = Len(vcalls)

(***************************************************************************)
(* Packed sizes                                                            *)
(***************************************************************************)
\* bits per coefficient of each packing
EtaBits == IF ETA = 2 THEN 3 ELSE 4
ZBits == IF GAMMA1 = 2 ^ 17 THEN 18 ELSE 20
W1Bits == IF GAMMA2 = (Q - 1) \div 88 THEN 6 ELSE 4

\* size bytes hold N coefficients of bits bits each, exactly
Packs(size, bits) == size * 8 = N * bits

\* C13: in each of the builds 2, 3 and 5 every packed size is N times the bits
\* per coefficient over 8, and the bits hold the coefficient domain: eta 3 or 4
\* bits with 2 ETA + 1 <= 2^bits, t1 10 bits (320 bytes) with (Q-1) >> D < 2^10,
\* t0 13 = D bits (416 bytes), z 18 or 20 bits with 2 GAMMA1 <= 2^bits, w1 6 bits
\* with 44 values or 4 bits with 16 values, and the hint vector OMEGA + K bytes.
C13_PackedSizes ==
  /\ mode \in Modes
  /\ ETA \in {2, 4}
  /\ Packs(POLYETA_PACKEDBYTES, EtaBits)
  /\ 2 * ETA + 1 <= 2 ^ EtaBits
  /\ POLYT1_PACKEDBYTES = 320
  /\ Packs(POLYT1_PACKEDBYTES, 10)
  /\ (Q - 1) \div (2 ^ D) < 2 ^ 10
  /\ POLYT0_PACKEDBYTES = 416
  /\ Packs(POLYT0_PACKEDBYTES, 13)
  /\ D = 13
  /\ GAMMA1 \in {2 ^ 17, 2 ^ 19}
  /\ Packs(POLYZ_PACKEDBYTES, ZBits)
  /\ 2 * GAMMA1 <= 2 ^ ZBits
  /\ GAMMA2 \in {(Q - 1) \div 88, (Q - 1) \div 32}
  /\ Packs(POLYW1_PACKEDBYTES, W1Bits)
  /\ (Q - 1) \div (2 * GAMMA2) = (IF W1Bits = 6 THEN 44 ELSE 16)
  /\ (Q - 1) \div (2 * GAMMA2) <= 2 ^ W1Bits
  /\ POLYVECH_PACKEDBYTES = OMEGA + K

\* the build with ETA = 4, 20-bit z and 4-bit w1, after a call
C13_Witness ==
  /\ mode = 3
  /\ << POLYETA_PACKEDBYTES, POLYZ_PACKEDBYTES, POLYW1_PACKEDBYTES, POLYVECH_PACKEDBYTES >>
       = << 128, 640, 128, 61 >>
  /\ vop.name # "none"

(***************************************************************************)
(* power2round                                                             *)
(***************************************************************************)
\* << a1, a0 >> splits a as the claim says: a1 = (a + 2^(D-1) - 1) >> D,
\* a0 = a - a1 2^D, a1 2^D + a0 = a, -2^(D-1) < a0 <= 2^(D-1), 0 <= a1 < 1024
IsPower2round(a, a1, a0) ==
  /\ a1 = (a + 2 ^ (D - 1) - 1) \div (2 ^ D)
  /\ a0 = a - a1 * 2 ^ D
  /\ a1 * 2 ^ D + a0 = a
  /\ -(2 ^ (D - 1)) < a0
  /\ a0 <= 2 ^ (D - 1)
  /\ 0 <= a1
  /\ a1 < 1024

\* C14: power2round splits every a in [0, Q) into a1 = (a + 2^(D-1) - 1) >> D
\* and a0 = a - a1 2^D with a1 2^D + a0 = a, -2^(D-1) < a0 <= 2^(D-1) and
\* 0 <= a1 < 1024, and polyveck_power2round does so for every coefficient of
\* each of the K polynomials.
C14_Power2round ==
  /\ (vop.name = "power2round" /\ vop.ins[1] \in 0..(Q - 1)) =>
       IsPower2round(vop.ins[1], vret[1], vret[2])
  /\ (vop.name = "polyveck_power2round") =>
       \A i \in 0..(K - 1) : \A n \in 1..N :
         /\ vpre[Elem(vop.ins[1], i)][n] \in 0..(Q - 1)
         /\ IsPower2round(vpre[Elem(vop.ins[1], i)][n],
                          heap[Elem(vop.outs[1], i)][n], heap[Elem(vop.outs[2], i)][n])

\* the largest coefficient, and a vector call whose low parts take both signs
C14_Witness ==
  \/ /\ vop.name = "power2round"
     /\ vop.ins[1] = Q - 1
     /\ vret = << 1023, 4096 >>
  \/ /\ vop.name = "polyveck_power2round"
     /\ mode = 5
     /\ \E n \in 1..N : heap[Elem(vop.outs[2], K - 1)][n] < 0
     /\ \E n \in 1..N : heap[Elem(vop.outs[2], K - 1)][n] > 0

(***************************************************************************)
(* decompose                                                               *)
(***************************************************************************)
\* << a1, a0 >> decomposes a in [0, Q) as the claim says, for ALPHA = 2 gamma2
IsDecompose(a, a1, a0, gamma2) ==
  LET ALPHA == 2 * gamma2
      m == (Q - 1) \div ALPHA
      \* a / ALPHA rounded to the nearest integer, a half rounded down
      rounded == (a + gamma2 - 1) \div ALPHA
  IN  /\ m \in {44, 16}
      /\ m * ALPHA = Q - 1
      /\ 0 <= a1
      /\ a1 < m
      /\ (a1 * ALPHA + a0 - a) % Q = 0
      /\ IF rounded = m
         THEN a1 = 0 /\ a0 = a - Q /\ -(ALPHA \div 2) <= a0 /\ a0 < 0
         ELSE -(ALPHA \div 2) < a0 /\ a0 <= ALPHA \div 2

\* C15: for every a in [0, Q) and ALPHA = 2 GAMMA2, with GAMMA2 = (Q-1)/88 and
\* with GAMMA2 = (Q-1)/32, decompose gives a1 ALPHA + a0 = a modulo Q,
\* 0 <= a1 < (Q-1)/ALPHA (44 or 16) and -ALPHA/2 < a0 <= ALPHA/2, but for the
\* inputs whose high part would round to (Q-1)/ALPHA: these give a1 = 0 and
\* a0 = a - Q with -ALPHA/2 <= a0 < 0.  polyveck_decompose does so for every
\* coefficient.
C15_Decompose ==
  /\ (vop.name = "decompose" /\ vop.ins[1] \in 0..(Q - 1)) =>
       IsDecompose(vop.ins[1], vret[1], vret[2], GAMMA2)
  /\ (vop.name = "polyveck_decompose") =>
       \A i \in 0..(K - 1) : \A n \in 1..N :
         /\ vpre[Elem(vop.ins[1], i)][n] \in 0..(Q - 1)
         /\ IsDecompose(vpre[Elem(vop.ins[1], i)][n],
                        heap[Elem(vop.outs[1], i)][n], heap[Elem(vop.outs[2], i)][n], GAMMA2)

\* the least input whose high part rounds to 44
C15_Witness ==
  /\ vop.name = "decompose"
  /\ mode = 2
  /\ vop.ins[1] = Q - GAMMA2
  /\ vret = << 0, -GAMMA2 >>

(***************************************************************************)
(* Hints                                                                   *)
(***************************************************************************)
\* C16: for a in [0, Q) with << a1, a0 >> = decompose(a) and |d| <= GAMMA2, the
\* hint h = make_hint(a0 + d, a1) gives use_hint((a + d) mod Q, h) = a1, the
\* high part of a; make_hint is 1 exactly when its low argument is > GAMMA2,
\* or < -GAMMA2, or is -GAMMA2 with a1 # 0; use_hint with h = 1 returns the
\* high part of its argument plus 1 or minus 1 modulo m (44 or 16) by the sign
\* of the low part.
C16_HintReconstruction ==
  /\ (vop.name = "make_hint") =>
       /\ vret \in {0, 1}
       /\ (vret = 1) <=> (\/ vop.ins[1] > GAMMA2
                          \/ vop.ins[1] < -GAMMA2
                          \/ (vop.ins[1] = -GAMMA2 /\ vop.ins[2] # 0))
  /\ (vop.name = "use_hint") =>
       \A c \in {vcalls[1]} :
         /\ c.a \in 0..(Q - 1)
         /\ c.d \in (-GAMMA2)..GAMMA2
         /\ << c.a1, c.a0 >> = decompose(c.a, GAMMA2)
         /\ vop.ins[2] = make_hint(c.a0 + c.d, c.a1, GAMMA2)
         /\ vret = c.a1
         /\ (vop.ins[2] = 1) =>
              \A b \in {decompose(vop.ins[1], GAMMA2)} :
                vret = (IF b[2] > 0 THEN (b[1] + 1) % ((Q - 1) \div (2 * GAMMA2))
                        ELSE (b[1] - 1) % ((Q - 1) \div (2 * GAMMA2)))
  /\ (vop = HintCalls[3]) =>
       \A i \in 0..(K - 1) : \A n \in 1..N :
         heap[<< "h1k", 0, i >>][n] =
           make_hint(heap[<< "w0k", 0, i >>][n], heap[<< "wk", 0, i >>][n], GAMMA2)
  /\ (vop = HintCalls[3]) =>
       vret = Cardinality({x \in (0..(K - 1)) \X (1..N) : heap[<< "h1k", 0, x[1] >>][x[2]] = 1})
  /\ (vop = HintCalls[7]) =>
       \A i \in 0..(K - 1) : \A n \in 1..N :
         /\ heap[<< "rk", 0, i >>][n] \in 0..(Q - 1)
         /\ heap[<< "dk", 0, i >>][n] \in (-GAMMA2)..GAMMA2
         /\ heap[<< "wk", 0, i >>][n] = decompose(heap[<< "rk", 0, i >>][n], GAMMA2)[1]
         /\ heap[<< "sk", 0, i >>][n] = (heap[<< "rk", 0, i >>][n] + heap[<< "dk", 0, i >>][n]) % Q
         /\ heap[<< "ok", 0, i >>][n] = heap[<< "wk", 0, i >>][n]

\* the low part moved to -GAMMA2 exactly, with a1 # 0: the hint is needed
C16_Witness ==
  /\ vop.name = "use_hint"
  /\ vop.ins[2] = 1
  /\ vcalls[1].a0 + vcalls[1].d = -GAMMA2
  /\ vcalls[1].a1 # 0
  /\ vret = vcalls[1].a1
  /\ decompose(vop.ins[1], GAMMA2)[1] # vret

(***************************************************************************)
(* Montgomery reduction.  Residues modulo Q of 64-bit values are computed  *)
(* byte by byte, within 32 bits.                                           *)
(***************************************************************************)
\* x * y mod Q for 0 <= x, y < Q
MulModQ(x, y) ==
  LET Shift(acc, byte) == (((acc * 256) % Q) + ((x * byte) % Q)) % Q
  IN  Shift(Shift(Shift(0, y \div 65536), (y \div 256) % 256), y % 256)

\* the residue modulo Q of the 64-bit value << hi, lo1, lo0 >>
ModQ(a) ==
  (MulModQ(MulModQ(a[1] % Q, 65536), 65536) + MulModQ(a[2], 65536) + a[3]) % Q

\* |a| < Q 2^31 for the 64-bit value a: Q 2^31 = 4190208 2^32 + 2^31
InMontgomeryRange(a) ==
  /\ \/ a[1] < 4190208
     \/ a[1] = 4190208 /\ a[2] < 32768
  /\ \/ a[1] > -4190209
     \/ a[1] = -4190209 /\ (a[2] > 32768 \/ (a[2] = 32768 /\ a[3] > 0))

\* r is what the claim says of the 64-bit value a
IsMontgomeryReduced(a, r) ==
  \A t \in {Int32(Mul64(Int32(a[2], a[3]), 58728449)[2], Mul64(Int32(a[2], a[3]), 58728449)[3])} :
    \A tq \in {Mul64(t, Q)} :
      \* a - t Q is a multiple of 2^32
      /\ tq[2] = a[2]
      /\ tq[3] = a[3]
      /\ r = a[1] - tq[1]
      /\ ModQ(<< r, 0, 0 >>) = ModQ(a)
      /\ -Q < r
      /\ r < Q

PointwiseLen == IF vop.name = "polyvecl_pointwise_poly_montgomery" THEN L ELSE K

\* C17: for a signed 64-bit a with |a| < Q 2^31, t = (int32)(a 58728449 mod 2^32)
\* makes a - t Q a multiple of 2^32, and r = (a - t Q) >> 32 has r 2^32 = a
\* modulo Q and |r| < Q; so every coefficient pointwise_montgomery produces from
\* a product within that bound is below Q in magnitude.
C17_MontgomeryReduce ==
  /\ (vop.name = "montgomery_reduce" /\ InMontgomeryRange(vop.ins[1])) =>
       IsMontgomeryReduced(vop.ins[1], vret)
  /\ (vop.name \in {"polyvecl_pointwise_poly_montgomery", "polyveck_pointwise_poly_montgomery"}) =>
       \A i \in 0..(PointwiseLen - 1) : \A n \in 1..N :
         \A a \in {Mul64(vpre[vop.ins[1]][n], vpre[Elem(vop.ins[2], i)][n])} :
           /\ InMontgomeryRange(a)
           /\ IsMontgomeryReduced(a, heap[Elem(vop.outs[1], i)][n])

\* the largest value in range
C17_Witness ==
  /\ vop.name = "montgomery_reduce"
  /\ vop.ins[1] = << 4190208, 32767, 65535 >>
  /\ vret > 0

(***************************************************************************)
(* Central reduction                                                       *)
(***************************************************************************)
\* a + 2^22 does not overflow int32_t
Reducible(a) == a <= 2143289343

\* r is reduce32(a), congruent to a and at least low
IsReduced(a, r, low) ==
  /\ r = a - ((a + 4194304) \div 8388608) * Q
  /\ (r - a) % Q = 0
  /\ low <= r
  /\ r <= 6283008

\* what the two calls leave, whatever the bound of the reduced values
IsRepresentative ==
  /\ (vop.name = "caddq") =>
       /\ vret \in 0..(Q - 1)
       /\ vret = vcalls[1].a % Q
  /\ (vop = ReduceCalls[2]) =>
       \A i \in 0..(K - 1) : \A n \in 1..N :
         /\ Reducible(heap[<< "ek0", 0, i >>][n])
         /\ heap[<< "ek", 0, i >>][n] \in 0..(Q - 1)
         /\ heap[<< "ek", 0, i >>][n] = heap[<< "ek0", 0, i >>][n] % Q

Count(sig, i) == IF i < 0 THEN 0 ELSE sig[OMEGA + i + 1]

\* inside the segment of a polynomial an index is not above the one before it
NonMonotone(sig) ==
  \E i \in 0..(K - 1) : \E j \in 1..(OMEGA - 1) :
    /\ Count(sig, i - 1) < j
    /\ j < Count(sig, i)
    /\ Count(sig, i) <= OMEGA
    /\ sig[j + 1] <= sig[j]

Regression(sig) == \E i \in 1..(K - 1) : Count(sig, i) < Count(sig, i - 1)

OverQuota(sig) == \E i \in 0..(K - 1) : Count(sig, i) > OMEGA

\* C19: unpacking a hint vector fails, returning a failure value, when inside
\* the segment of a polynomial an index is not strictly greater than the one
\* before it, when a running count is smaller than the running count before
\* it, or when a running count exceeds OMEGA; it succeeds on every byte string
\* the packer produces.
C19_HintUnpackRejects ==
  (vop.name = "hint_unpack") =>
    /\ vret.ret \in {0, 1}
    /\ (NonMonotone(vop.ins[1]) \/ Regression(vop.ins[1]) \/ OverQuota(vop.ins[1])) => vret.ret = 1
    /\ (vop.ins[1] = vcalls[1].sig) => vret.ret = 0
    /\ vcalls[1].sig = hint_pack(vcalls[1].h, K, OMEGA)

\* two indices of a segment of a full vector made equal: a failure
C19_Witness ==
  /\ vop.name = "hint_unpack"
  /\ vcalls[1].h = HintVector("full")
  /\ vop.ins[1] # vcalls[1].sig
  /\ vop.ins[1][1] = vop.ins[1][2]
  /\ Count(vop.ins[1], 0) >= 2
  /\ ~Regression(vop.ins[1])
  /\ ~OverQuota(vop.ins[1])
  /\ vret.ret = 1

\* the number of 1 bits of the polynomials 0 .. i of hv
Ones(hv, i) == Cardinality({x \in (1..(i + 1)) \X (1..N) : hv[x[1]][x[2]] # 0})

\* C20: for a K-vector of 0/1 polynomials with at most OMEGA 1 bits the packer
\* emits exactly OMEGA + K bytes: the positions of the 1 coefficients by
\* increasing polynomial and coefficient index, zeros up to OMEGA bytes, then K
\* bytes, byte i the number of 1 coefficients of the polynomials 0 .. i; and
\* unpacking these bytes gives the vector back.  A single 1 at coefficient 5 of
\* polynomial 0 gives first byte 5, the other head bytes 0, and K bytes 1.
C20_HintPack ==
  /\ (vop.name = "hint_pack" /\ Ones(vop.ins[1], K - 1) <= OMEGA) =>
       /\ Len(vret) = OMEGA + K
       /\ Len(vret) = POLYVECH_PACKEDBYTES
       /\ \A i \in 0..(K - 1) :
            /\ vret[OMEGA + i + 1] = Ones(vop.ins[1], i)
            \* the segment of polynomial i: its 1 coefficients, increasing
            /\ {vret[j + 1] : j \in Ones(vop.ins[1], i - 1)..(Ones(vop.ins[1], i) - 1)}
                 = {n - 1 : n \in {n \in 1..N : vop.ins[1][i + 1][n] = 1}}
            /\ \A j \in (Ones(vop.ins[1], i - 1) + 1)..(Ones(vop.ins[1], i) - 1) :
                 vret[j] < vret[j + 1]
       /\ \A j \in (Ones(vop.ins[1], K - 1) + 1)..OMEGA : vret[j] = 0
       /\ (vop.ins[1] = HintVector("one")) =>
            /\ vret[1] = 5
            /\ \A j \in 2..OMEGA : vret[j] = 0
            /\ \A i \in 1..K : vret[OMEGA + i] = 1
  /\ (vop.name = "hint_unpack" /\ vop.ins[1] = vcalls[1].sig) =>
       /\ vret.ret = 0
       /\ vret.h = vcalls[1].h

\* a vector of exactly OMEGA 1 bits, in every polynomial, packed and unpacked
C20_Witness ==
  /\ vop.name = "hint_unpack"
  /\ vop.ins[1] = vcalls[1].sig
  /\ Ones(vcalls[1].h, K - 1) = OMEGA
  /\ \A i \in 1..K : \E n \in 1..N : vcalls[1].h[i][n] = 1
  /\ vret.h = vcalls[1].h
  /\ mode = 5

(***************************************************************************)
(* The sponge, call by call                                                *)
(***************************************************************************)
\* st with byte x XORed into byte b of the state array
XorByteAt(st, b, x) == [st EXCEPT ![(b \div 8) + 1] = XOR(@, ShiftByte(x, b % 8))]

\* One byte: x goes to the cursor of c = [s, pos, nperm]; when that was byte
\* r-1 the state is permuted and the cursor returns to 0.
ByteStep(c, r, x) ==
  IF c.pos = r - 1
  THEN [s |-> KeccakF1600_StatePermute(XorByteAt(c.s, c.pos, x)), pos |-> 0, nperm |-> c.nperm + 1]
  ELSE [s |-> XorByteAt(c.s, c.pos, x), pos |-> c.pos + 1, nperm |-> c.nperm]

\* the bytes from .. to-1 of data, byte after byte
RECURSIVE ByteByByte(_, _, _, _, _)
ByteByByte(c, r, data, from, to) ==
  IF from >= to THEN c
  ELSE IF to = from + 1 THEN ByteStep(c, r, data[from + 1])
       ELSE LET Go(c1) == IF c1.pos < r THEN ByteByByte(c1, r, data, (from + to) \div 2, to) ELSE c1
            IN  Go(ByteByByte(c, r, data, from, (from + to) \div 2))

\* C26: an absorb call at a cursor below the rate XORs input byte k into byte
\* (pos + k) mod rate of the state, permutes floor((pos + inlen) / rate) times,
\* each time right after byte rate-1 was written, returns the cursor
\* (pos + inlen) mod rate and subscripts no capacity lane; an absorb of 0
\* bytes changes neither the lanes nor the cursor.
C26_AbsorbByteByByte ==
  (op = "absorb" /\ pre.pos < rate) =>
    /\ \A ref \in {ByteByByte([s |-> pre.s, pos |-> pre.pos, nperm |-> 0], rate, in, 0, Len(in))} :
         /\ s = ref.s
         /\ pos = ref.pos
         /\ ret.nperm = ref.nperm
    /\ ret.nperm = (pre.pos + Len(in)) \div rate
    /\ pos = (pre.pos + Len(in)) % rate
    /\ \A i \in ret.idx : i < rate \div 8
    /\ ret.nperm = 0 =>
         \A b \in 0..199 :
           Bits8(StateByte(s, b))
             = XOR(Bits8(StateByte(pre.s, b)),
                   IF pre.pos <= b /\ b < pre.pos + Len(in) THEN Bits8(in[b - pre.pos + 1]) ELSE {})
    /\ in = << >> => s = pre.s /\ pos = pre.pos

\* a block and a byte absorbed at the last byte of a block: two permutations
C26_Witness ==
  /\ op = "absorb"
  /\ pre.pos = rate - 1
  /\ Len(in) = rate + 1
  /\ ret.nperm = 2
  /\ pos = 0
  /\ calls = 2

(***************************************************************************)
(* SpecBlocks: the output phase with both squeeze and squeezeblocks.       *)
(***************************************************************************)
NextBlocks ==
  \/ phase = "absorbing" /\ Absorb({3})
  \/ phase = "absorbing" /\ Finalize
  \/ calls = 0 /\ AbsorbOnce({0, 5})
  \/ phase = "squeezing" /\ Squeeze({0, 1, rate - 1, rate})
  \/ phase = "squeezing" /\ SqueezeBlocks({0, 1, 2})

SpecBlocks == InitSponge /\ [][NextBlocks]_vars

\* C27: at a cursor equal to the rate (after finalize, absorb_once or a whole
\* number of squeezed blocks) squeezeblocks(n) emits the n*rate bytes, and
\* leaves the lanes and the cursor, the rate, that squeeze(n*rate) does, with
\* n permutations; with n = 0 neither of them changes anything.
C27_SqueezeBlocksAtRate ==
  /\ (op = "squeezeblocks" /\ phase = "squeezing" /\ pre.pos = rate) =>
       /\ \A one \in {shake_squeeze(outlen * rate, pre.s, pre.pos, rate)} :
            /\ ret.out = one.out
            /\ s = one.s
            /\ pos = one.pos
            /\ ret.nperm = one.nperm
       /\ Len(ret.out) = outlen * rate
       /\ pos = rate
       /\ ret.nperm = outlen
       /\ outlen = 0 => s = pre.s /\ ret.out = << >>
  /\ (op = "squeeze" /\ phase = "squeezing" /\ pre.pos = rate /\ outlen = 0) =>
       s = pre.s /\ pos = pre.pos /\ ret.out = << >> /\ ret.nperm = 0

\* a block emitted, then one more by squeezeblocks
C27_Witness ==
  /\ op = "squeezeblocks" /\ phase = "squeezing"
  /\ pre.pos = rate
  /\ outlen = 1
  /\ Len(out) = 2 * rate
  /\ perms = 2
  /\ calls = 3
  /\ pos = rate

\* C28: after finalize, whatever the sequence of squeeze and squeezeblocks
\* calls, also when squeezeblocks follows a squeeze that stopped inside a
\* block, the bytes emitted so far are those of one squeeze call of their
\* total length.
C28_SqueezeBlocksAnywhere ==
  (op \in {"squeeze", "squeezeblocks"} /\ phase = "squeezing") =>
    \A one \in {shake_squeeze(Len(out), fin.s, fin.pos, rate)} : out = one.out


(***************************************************************************)
(* SpecSteps: keccak_absorb and keccak_squeeze one loop iteration at a     *)
(* time.  While a call runs, op is the function and ret holds its locals:  *)
(* pos, and k, the number of bytes it has read from in or written to out,  *)
(* next to nperm and idx; s and the output buffer are written in place and *)
(* state->pos is assigned when the call returns.                           *)
(***************************************************************************)
Running == op \in {"keccak_absorb", "keccak_squeeze"}

Locals(p) == [out |-> << >>, nperm |-> 0, idx |-> {}, pos |-> p, k |-> 0]

\* A variant of the body that does not permute at the end of a block
keccak_squeeze_locals_stuck(c, r, left) ==
  [out   |-> << >>,
   nperm |-> c.nperm,
   idx   |-> c.idx \cup ByteLanes(c.pos, Min(r, c.pos + left)),
   pos   |-> Min(r, c.pos + left),
   k     |-> c.k + (Min(r, c.pos + left) - c.pos)]

\* The locals after the body of while(outlen) of keccak_squeeze, left =
\* outlen: if(pos == r) permute and pos = 0; the for loop runs i from pos to
\* the end of the block or of the request; outlen -= i-pos; pos = i.
keccak_squeeze_locals(c, r, left) ==
  LET For(p1, i) ==
        [out   |-> << >>,
         nperm |-> c.nperm + (IF c.pos = r THEN 1 ELSE 0),
         idx   |-> c.idx \cup ByteLanes(p1, i),
         pos   |-> i,
         k     |-> c.k + (i - p1)]
  IN  IF c.pos = r THEN For(0, Min(r, left)) ELSE For(c.pos, Min(r, c.pos + left))

\* The locals after the body of while(pos+inlen >= r) of keccak_absorb: the
\* for loop reads r-pos bytes; inlen -= r-pos; permute; pos = 0.
keccak_absorb_locals(c, r) ==
  [out   |-> << >>,
   nperm |-> c.nperm + 1,
   idx   |-> c.idx \cup ByteLanes(c.pos, r),
   pos   |-> 0,
   k     |-> c.k + (r - c.pos)]

EnterAbsorb(lens) ==
  /\ ~Running
  /\ calls < MaxCalls
  /\ \E n \in lens :
       /\ Len(msg) + n <= MaxIn
       /\ in' = Chunk(Len(msg), n)
  /\ op' = "keccak_absorb"
  /\ ret' = Locals(pos)
  /\ outlen' = 0
  /\ pre' = [s |-> s, pos |-> pos]
  /\ calls' = calls + 1
  /\ UNCHANGED << rate, s, pos, phase, msg, perms, fin, out, vecVars >>

\* what an iteration of the loop of keccak_absorb does to the locals
AbsorbLocals ==
  /\ op = "keccak_absorb"
  /\ ret.pos + (Len(in) - ret.k) >= rate
  /\ ret' = keccak_absorb_locals(ret, rate)

AbsorbWhile ==
  /\ AbsorbLocals
  /\ s' = KeccakF1600_StatePermute(XorBytes(s, ret.pos, rate, in, ret.k))
  /\ UNCHANGED << rate, pos, op, in, outlen, pre, phase, msg, perms, fin, out, calls, vecVars >>

\* the last for loop of keccak_absorb, and state->pos = the value returned
AbsorbReturn ==
  /\ op = "keccak_absorb"
  /\ ret.pos + (Len(in) - ret.k) < rate
  /\ s' = XorBytes(s, ret.pos, ret.pos + (Len(in) - ret.k), in, ret.k)
  /\ pos' = ret.pos + (Len(in) - ret.k)
  /\ ret' = [out |-> << >>, nperm |-> ret.nperm,
             idx |-> ret.idx \cup ByteLanes(ret.pos, ret.pos + (Len(in) - ret.k))]
  /\ op' = "absorb"
  /\ msg' = msg \o in
  /\ perms' = perms + ret.nperm
  /\ phase' = IF phase = "absorbing" THEN "absorbing" ELSE "misused"
  /\ UNCHANGED << rate, in, outlen, pre, fin, out, calls, vecVars >>

EnterSqueeze(lens) ==
  /\ ~Running
  /\ calls < MaxCalls
  /\ \E n \in lens :
       /\ Len(out) + n <= MaxOut
       /\ outlen' = n
  /\ op' = "keccak_squeeze"
  /\ ret' = Locals(pos)
  /\ in' = << >>
  /\ pre' = [s |-> s, pos |-> pos]
  /\ calls' = calls + 1
  /\ UNCHANGED << rate, s, pos, phase, msg, perms, fin, out, vecVars >>

\* what an iteration of the loop of keccak_squeeze does to the locals
SqueezeLocals ==
  /\ op = "keccak_squeeze"
  /\ outlen - ret.k > 0
  /\ ret' = keccak_squeeze_locals(ret, rate, outlen - ret.k)

\* the iteration: the state is permuted if the locals say so, and the bytes
\* of the block up to the new pos go to the output buffer
SqueezeWhile ==
  /\ SqueezeLocals
  /\ \E st \in {IF ret'.nperm > ret.nperm THEN KeccakF1600_StatePermute(s) ELSE s} :
       /\ s' = st
       /\ out' = out \o [j \in 1..(ret'.k - ret.k) |->
                           LaneByte(st[((ret'.pos - (ret'.k - ret.k) + j - 1) \div 8) + 1],
                                    (ret'.pos - (ret'.k - ret.k) + j - 1) % 8)]
  /\ UNCHANGED << rate, pos, op, in, outlen, pre, phase, msg, perms, fin, calls, vecVars >>

\* return pos, and state->pos = the value returned
SqueezeReturn ==
  /\ op = "keccak_squeeze"
  /\ outlen - ret.k = 0
  /\ pos' = ret.pos
  /\ ret' = [out |-> SubSeq(out, Len(out) - outlen + 1, Len(out)), nperm |-> ret.nperm, idx |-> ret.idx]
  /\ op' = "squeeze"
  /\ perms' = perms + ret.nperm
  /\ phase' = IF phase = "squeezing" THEN "squeezing" ELSE "misused"
  /\ UNCHANGED << rate, s, in, outlen, pre, msg, fin, out, calls, vecVars >>

NextSteps ==
  \/ EnterAbsorb(IF calls = 0 THEN {0, 1, rate - 1, rate, rate + 1, 2 * rate + 1} ELSE {0, rate + 1})
  \/ AbsorbWhile
  \/ AbsorbReturn
  \/ ~Running /\ Finalize
  \/ EnterSqueeze(IF calls < 2 THEN {0, 1, rate - 1, rate, rate + 1, 2 * rate, 2 * rate + 1} ELSE {0, rate})
  \/ SqueezeWhile
  \/ SqueezeReturn

\* The program runs on: an iteration that changes the locals is made, and a
\* call whose loop has ended returns.
SpecSteps ==
  /\ InitSponge
  /\ [][NextSteps]_vars
  /\ WF_ret(AbsorbLocals)
  /\ WF_vars(AbsorbReturn)
  /\ WF_ret(SqueezeLocals)
  /\ WF_vars(SqueezeReturn)

\* what a call that has returned has done
Completed ==
  /\ 0 <= pre.pos /\ pre.pos <= rate
  /\ op = "absorb" =>
       \A whole \in {keccak_absorb(pre.s, pre.pos, rate, in)} :
         s = whole.s /\ pos = whole.pos /\ ret.nperm = whole.nperm
  /\ op = "squeeze" =>
       /\ Len(ret.out) = outlen
       /\ \A whole \in {keccak_squeeze(outlen, pre.s, pre.pos, rate)} :
            s = whole.s /\ pos = whole.pos /\ ret.out = whole.out
       /\ (pre.pos = rate /\ outlen > 0) => ret.nperm = (outlen + rate - 1) \div rate
       /\ outlen = 0 => ret.nperm = 0 /\ s = pre.s /\ pos = pre.pos

\* C30: for every cursor in 0..rate keccak_absorb returns for every inlen and
\* keccak_squeeze returns for every outlen, having emitted exactly outlen
\* bytes; a squeeze of outlen > 0 bytes from cursor = rate permutes
\* ceil(outlen / rate) times, a squeeze of 0 bytes not at all, leaving lanes
\* and cursor as they were.
C30_RunToCompletion == [](Completed) /\ (Running ~> ~Running)

\* two blocks and a byte squeezed from the end of a block, in three rounds
C30_Witness ==
  /\ op = "squeeze"
  /\ pre.pos = rate
  /\ outlen = 2 * rate + 1
  /\ Len(ret.out) = outlen
  /\ ret.nperm = 3
  /\ pos = 1

(***************************************************************************)
(* Packing of polynomials (poly.c is not among the sources): a coefficient *)
(* is mapped to a field of `bits` bits, and the fields follow each other,  *)
(* low bits first, in the bytes.  A polynomial is the sequence of its N    *)
(* coefficients, a byte string a sequence of bytes.                        *)
(***************************************************************************)
\* the value of the width bits from bit `from` of the byte string on
Field(bytes, from, width) ==
  LET b0    == from \div 8
      shift == from % 8
      Byte(k) == IF b0 + k + 1 <= Len(bytes) THEN bytes[b0 + k + 1] ELSE 0
      low   == (Byte(0) + 256 * Byte(1) + 65536 * Byte(2)) \div (2 ^ shift)
      high  == IF shift + width > 24
               THEN (Byte(3) % (2 ^ (shift + width - 24))) * (2 ^ (24 - shift))
               ELSE 0
  IN  (low + high) % (2 ^ width)

UnpackBits(bytes, bits) == [n \in 1..N |-> Field(bytes, (n - 1) * bits, bits)]

\* the bytes of the fields vals[1], vals[2], ... of `bits` bits each
PackBits(vals, bits) ==
  LET \* what field i (from 0) gives to byte b (from 0)
      Part(i, b) == IF i * bits >= 8 * b
                    THEN (vals[i + 1] * (2 ^ (i * bits - 8 * b))) % 256
                    ELSE (vals[i + 1] \div (2 ^ (8 * b - i * bits))) % 256
      RECURSIVE Sum(_, _, _)
      Sum(b, i, last) == IF i > last THEN 0 ELSE Part(i, b) + Sum(b, i + 1, last)
  IN  [b \in 1..((Len(vals) * bits) \div 8) |->
         Sum(b - 1, (8 * (b - 1)) \div bits, (8 * (b - 1) + 7) \div bits)]

polyeta_pack(a, eta) == PackBits([n \in 1..N |-> eta - a[n]], IF eta = 2 THEN 3 ELSE 4)
polyeta_unpack(bytes, eta) ==
  [n \in 1..N |-> eta - UnpackBits(bytes, IF eta = 2 THEN 3 ELSE 4)[n]]

polyt1_pack(a) == PackBits(a, 10)
polyt1_unpack(bytes) == UnpackBits(bytes, 10)

polyt0_pack(a) == PackBits([n \in 1..N |-> (2 ^ (D - 1)) - a[n]], D)
polyt0_unpack(bytes) == [n \in 1..N |-> (2 ^ (D - 1)) - UnpackBits(bytes, D)[n]]

\* A variant that writes the coefficient plus GAMMA1
polyz_pack_plus(a, gamma1) ==
  PackBits([n \in 1..N |-> gamma1 + a[n]], IF gamma1 = 2 ^ 17 THEN 18 ELSE 20)

polyz_pack(a, gamma1) ==
  PackBits([n \in 1..N |-> gamma1 - a[n]], IF gamma1 = 2 ^ 17 THEN 18 ELSE 20)
polyz_unpack(bytes, gamma1) ==
  [n \in 1..N |-> gamma1 - UnpackBits(bytes, IF gamma1 = 2 ^ 17 THEN 18 ELSE 20)[n]]

(***************************************************************************)
(* SpecPack: a polynomial of the domain of a packer is packed, and the     *)
(* bytes are unpacked.                                                     *)
(***************************************************************************)
Packers == {"polyeta", "polyt1", "polyt0", "polyz"}

\* the least coefficient of the domain of a packer and the size of the domain
DomainOf(name) ==
  CASE name = "polyeta" -> << -ETA, 2 * ETA + 1 >>
    [] name = "polyt1" -> << 0, 1024 >>
    [] name = "polyt0" -> << 1 - 2 ^ (D - 1), 2 ^ D >>
    [] name = "polyz" -> << 1 - GAMMA1, 2 * GAMMA1 >>

MaxSamples == 9

\* Sample polynomials of a domain << lo, size >>: all coefficients the least
\* or the greatest value, the two alternating, and values over the domain
SamplePoly(dom, sd) ==
  [n \in 1..N |->
     CASE sd = 0 -> dom[1]
       [] sd = 1 -> dom[1] + dom[2] - 1
       [] sd = 2 -> IF n % 2 = 0 THEN dom[1] ELSE dom[1] + dom[2] - 1
       [] OTHER  -> dom[1] + ((sd * 7919 + n * n * 31 + n * 1009) % dom[2])]

pack(name, a) ==
  CASE name = "polyeta" -> polyeta_pack(a, ETA)
    [] name = "polyt1" -> polyt1_pack(a)
    [] name = "polyt0" -> polyt0_pack(a)
    [] name = "polyz" -> polyz_pack(a, GAMMA1)

unpack(name, bytes) ==
  CASE name = "polyeta" -> polyeta_unpack(bytes, ETA)
    [] name = "polyt1" -> polyt1_unpack(bytes)
    [] name = "polyt0" -> polyt0_unpack(bytes)
    [] name = "polyz" -> polyz_unpack(bytes, GAMMA1)

InitPack ==
  /\ SpongeAt(SHAKE128_RATE)
  /\ mode \in Modes
  /\ heap = << >>
  /\ vop = NoCall
  /\ vpre = << >>
  /\ vcalls = << >>
  /\ vret = << >>

Pack ==
  /\ vop.name = "none"
  /\ \E name \in Packers, sd \in 0..(MaxSamples - 1) :
       Returns(name, << SamplePoly(DomainOf(name), sd) >>,
               pack(name, SamplePoly(DomainOf(name), sd)), << "pack" >>)

\* the bytes written by the packer are unpacked
Unpack ==
  /\ vop.name \in Packers
  /\ vcalls = << "pack" >>
  /\ Returns(vop.name, << vret >>, unpack(vop.name, vret), << "unpack", vop.ins[1] >>)

NextPack == Pack \/ Unpack

SpecPack == InitPack /\ [][NextPack]_vars

\* the bits and bytes the specification gives for a packer, and the field a
\* coefficient is mapped to
BitsOf(name) ==
  CASE name = "polyeta" -> IF ETA = 2 THEN 3 ELSE 4
    [] name = "polyt1" -> 10
    [] name = "polyt0" -> 13
    [] name = "polyz" -> IF GAMMA1 = 131072 THEN 18 ELSE 20

BytesOf(name) ==
  CASE name = "polyeta" -> POLYETA_PACKEDBYTES
    [] name = "polyt1" -> POLYT1_PACKEDBYTES
    [] name = "polyt0" -> POLYT0_PACKEDBYTES
    [] name = "polyz" -> POLYZ_PACKEDBYTES

Mapped(name, c) ==
  CASE name = "polyeta" -> ETA - c
    [] name = "polyt1" -> c
    [] name = "polyt0" -> 4096 - c
    [] name = "polyz" -> GAMMA1 - c

InDomain(name, a) ==
  /\ Len(a) = N
  /\ \A n \in 1..N :
       CASE name = "polyeta" -> -ETA <= a[n] /\ a[n] <= ETA
         [] name = "polyt1" -> 0 <= a[n] /\ a[n] < 1024
         [] name = "polyt0" -> -4096 < a[n] /\ a[n] <= 4096
         [] name = "polyz" -> -GAMMA1 < a[n] /\ a[n] <= GAMMA1

BitAt(x, b) == (x \div (2 ^ b)) % 2

\* C22: for the eta, t1, t0 and z packers and every polynomial a of the
\* documented domain, pack writes the documented number of bytes, bit p of the
\* bytes (bit p mod 8 of byte p div 8) is bit p mod bits of the field of
\* coefficient p div bits, so that the fields lie little-endian in coefficient
\* order with no bit between them, and unpack gives a back.
C22_PackUnpack ==
  /\ (vop.name \in Packers /\ vcalls = << "pack" >> /\ InDomain(vop.name, vop.ins[1])) =>
       /\ Len(vret) = BytesOf(vop.name)
       /\ 8 * Len(vret) = N * BitsOf(vop.name)
       /\ \A b \in 1..Len(vret) : vret[b] \in 0..255
       /\ \A p \in 0..(8 * Len(vret) - 1) :
            BitAt(vret[(p \div 8) + 1], p % 8)
              = BitAt(Mapped(vop.name, vop.ins[1][(p \div BitsOf(vop.name)) + 1]), p % BitsOf(vop.name))
  /\ (vop.name \in Packers /\ Len(vcalls) = 2 /\ InDomain(vop.name, vcalls[2])) =>
       vret = vcalls[2]

\* the z packer on GAMMA1 = 2^19: both ends of the domain packed and unpacked
C22_Witness ==
  /\ vop.name = "polyz"
  /\ Len(vcalls) = 2
  /\ mode = 5
  /\ vret[1] = GAMMA1
  /\ vret[2] = 1 - GAMMA1
  /\ Len(vop.ins[1]) = 640
  /\ vret = vcalls[2]

(***************************************************************************)
(* The samplers.  poly_uniform_gamma1 absorbs seed | nonce (two bytes,     *)
(* little-endian) into SHAKE256, squeezes POLYZ_PACKEDBYTES bytes and      *)
(* unpacks them as a z polynomial.  The vector samplers log the calls      *)
(* they make, << destination, nonce >> each, the nonce as the uint16_t     *)
(* parameter receives it.                                                  *)
(***************************************************************************)
CRHBYTES == 64
TAU == CASE mode = 2 -> 39 [] mode = 3 -> 49 [] mode = 5 -> 60
CTILDEBYTES == CASE mode = 2 -> 32 [] mode = 3 -> 48 [] mode = 5 -> 64

\* left more bytes of the stream of the state st of rate r, a block at most
\* at a time
RECURSIVE shake_stream(_, _, _, _)
shake_stream(bytes, st, left, r) ==
  IF left = 0 THEN bytes
  ELSE LET Go(b) == IF Len(b.out) > 0
                    THEN shake_stream(bytes \o b.out, [s |-> b.s, pos |-> b.pos],
                                      left - Len(b.out), r)
                    ELSE bytes
       IN  Go(shake_squeeze(Min(left, r), st.s, st.pos, r))

poly_uniform_gamma1(h, a, seed, nonce, gamma1) ==
  LET zbytes == IF gamma1 = 2 ^ 17 THEN 576 ELSE 640
      Fill(bytes) == IF Len(bytes) = zbytes
                     THEN [Alloc(h, a) EXCEPT ![a] = polyz_unpack(bytes, gamma1)] ELSE h
      Stream(st) == IF st.pos = SHAKE256_RATE
                    THEN Fill(shake_stream(<< >>, st, zbytes, SHAKE256_RATE)) ELSE h
  IN  Stream(shake_absorb_once(SHAKE256_RATE, h[seed] \o << nonce % 256, nonce \div 256 >>))

\* A variant of the vector sampler with the nonces of the eta samplers
polyvecl_uniform_gamma1_counting(st, v, seed, nonce, l, gamma1) ==
  LET RECURSIVE For(_, _)
      Step(c, i) == IF DOMAIN c.h # {} THEN For(c, i + 1) ELSE c
      For(c, i) ==
        IF i < l
        THEN Step([h |-> poly_uniform_gamma1(c.h, Elem(v, i), seed, (nonce + i) % 65536, gamma1),
                   calls |-> Append(c.calls, << Elem(v, i), (nonce + i) % 65536 >>)], i)
        ELSE c
  IN  For(st, 0)

\* for(i = 0; i < L; ++i) poly_uniform_gamma1(&v->vec[i], seed, L*nonce + i);
polyvecl_uniform_gamma1(st, v, seed, nonce, l, gamma1) ==
  LET RECURSIVE For(_, _)
      Step(c, i) == IF DOMAIN c.h # {} THEN For(c, i + 1) ELSE c
      For(c, i) ==
        IF i < l
        THEN Step([h |-> poly_uniform_gamma1(c.h, Elem(v, i), seed, (l * nonce + i) % 65536, gamma1),
                   calls |-> Append(c.calls, << Elem(v, i), (l * nonce + i) % 65536 >>)], i)
        ELSE c
  IN  For(st, 0)

(***************************************************************************)
(* SpecSample: the samplers on the seeds of a caller: rho of SEEDBYTES     *)
(* bytes, seed of CRHBYTES bytes and ctilde of CTILDEBYTES bytes.          *)
(***************************************************************************)
SeedHeap(sd) ==
  (Poly("rho") :> [n \in 1..SEEDBYTES |-> (sd * (37 * n + 11)) % 256])
  @@ (Poly("seed") :> [n \in 1..CRHBYTES |-> (sd * (41 * n + 7)) % 256])
  @@ (Poly("ctilde") :> [n \in 1..CTILDEBYTES |-> (sd * (43 * n + 5)) % 256])

InitSample ==
  /\ SpongeAt(SHAKE128_RATE)
  /\ mode \in Modes
  /\ \E sd \in 0..1 : heap = SeedHeap(sd)
  /\ vop = NoCall
  /\ vpre = << >>
  /\ vcalls = << >>
  /\ vret = << >>

\* the nonces the masking vector is sampled with: the first two, and the
\* first whose product with L needs more than 16 bits
Gamma1Nonces == {0, 1, 65536 \div L}

\* y is sampled, and sampled again with a greater nonce; vret holds the
\* nonces of the calls and vcalls what they have logged
PolyveclUniformGamma1 ==
  /\ vop.name \in {"none", "polyvecl_uniform_gamma1"}
  /\ Len(vret) < 2
  /\ \E nonce \in {x \in Gamma1Nonces : \A n \in 1..Len(vret) : vret[n] < x} :
       /\ \E res \in {polyvecl_uniform_gamma1([h |-> heap, calls |-> vcalls], Vec("y"),
                                              Poly("seed"), nonce, L, GAMMA1)} :
            /\ heap' = res.h
            /\ vcalls' = res.calls
       /\ vop' = [name |-> "polyvecl_uniform_gamma1", outs |-> << Vec("y") >>,
                  ins |-> << Poly("seed"), nonce >>]
       /\ vret' = Append(vret, nonce)
  /\ vpre' = heap
  /\ UNCHANGED << mode, spongeVars >>

(***************************************************************************)
(* poly_uniform_eta absorbs seed | nonce into SHAKE256 and takes the       *)
(* nibbles of the stream, the low nibble of a byte first: a nibble below   *)
(* 15 (ETA = 2) or below 9 (ETA = 4) gives a coefficient.                  *)
(***************************************************************************)
eta_accept(t, eta) == IF eta = 2 THEN t < 15 ELSE t < 9

eta_map(t, eta) == IF eta = 2 THEN 2 - (t % 5) ELSE 4 - t

Nibbles(buf) ==
  [k \in 1..(2 * Len(buf)) |->
     IF k % 2 = 1 THEN buf[(k + 1) \div 2] % 16 ELSE buf[k \div 2] \div 16]

rej_eta(buf, eta) ==
  LET Accepted(t) == eta_accept(t, eta)
      Kept(ts) == [k \in 1..Len(ts) |-> eta_map(ts[k], eta)]
  IN  Kept(SelectSeq(Nibbles(buf), Accepted))

\* blocks of the SHAKE256 stream are squeezed until N coefficients are there
RECURSIVE poly_uniform_eta_loop(_, _, _)
poly_uniform_eta_loop(coeffs, st, eta) ==
  IF Len(coeffs) >= N THEN SubSeq(coeffs, 1, N)
  ELSE LET Go(b) == poly_uniform_eta_loop(coeffs \o rej_eta(b.out, eta),
                                          [s |-> b.s, pos |-> b.pos], eta)
       IN  Go(shake_squeezeblocks(1, st.s, st.pos, SHAKE256_RATE))

poly_uniform_eta(h, a, seed, nonce, eta) ==
  LET Fill(st) == [Alloc(h, a) EXCEPT ![a] = poly_uniform_eta_loop(<< >>, st, eta)]
  IN  Fill(shake_absorb_once(SHAKE256_RATE, h[seed] \o << nonce % 256, nonce \div 256 >>))

\* A variant of the vector sampler that passes nonce on as it is
polyvec_uniform_eta_same(st, v, seed, nonce, len, eta) ==
  LET RECURSIVE For(_, _)
      Step(c, i) == IF Len(c.h[Elem(v, i)]) = N THEN For(c, i + 1) ELSE c
      For(c, i) ==
        IF i < len
        THEN Step([h |-> poly_uniform_eta(c.h, Elem(v, i), seed, nonce, eta),
                   calls |-> Append(c.calls, << Elem(v, i), nonce >>),
                   nonce |-> nonce], i)
        ELSE c
  IN  For([h |-> st.h, calls |-> st.calls, nonce |-> nonce], 0)

\* for(i = 0; i < K; ++i) poly_uniform_eta(&v->vec[i], seed, nonce++);
\* polyvecl_uniform_eta is the same loop to L; nonce is a uint16_t
polyvec_uniform_eta(st, v, seed, nonce, len, eta) ==
  LET RECURSIVE For(_, _)
      Step(c, i) == IF Len(c.h[Elem(v, i)]) = N THEN For(c, i + 1) ELSE c
      For(c, i) ==
        IF i < len
        THEN Step([h |-> poly_uniform_eta(c.h, Elem(v, i), seed, c.nonce, eta),
                   calls |-> Append(c.calls, << Elem(v, i), c.nonce >>),
                   nonce |-> (c.nonce + 1) % 65536], i)
        ELSE c
  IN  For([h |-> st.h, calls |-> st.calls, nonce |-> nonce], 0)

polyvecl_uniform_eta(st, v, seed, nonce, l, eta) == polyvec_uniform_eta(st, v, seed, nonce, l, eta)

polyveck_uniform_eta(st, v, seed, nonce, k, eta) == polyvec_uniform_eta(st, v, seed, nonce, k, eta)

\* the nonces of single polynomials
MaxNonces == 5
PolyNonces == (0..(MaxNonces - 2)) \cup {284}

PolyUniformEta ==
  /\ vop.name = "none"
  /\ \E nonce \in PolyNonces :
       /\ \E res \in {poly_uniform_eta(heap, Poly("e"), Poly("seed"), nonce, ETA)} :
            heap' = res
       /\ vop' = [name |-> "poly_uniform_eta", outs |-> << Poly("e") >>,
                  ins |-> << Poly("seed"), nonce >>]
       /\ vcalls' = << << Poly("e"), nonce >> >>
  /\ vpre' = heap
  /\ vret' = << >>
  /\ UNCHANGED << mode, spongeVars >>

\* s1 with the first nonce, and with one whose increments wrap around
PolyveclUniformEta ==
  /\ vop.name = "none"
  /\ \E nonce \in {0, 65534} :
       /\ \E res \in {polyvecl_uniform_eta([h |-> heap, calls |-> << >>], Vec("s1"),
                                           Poly("seed"), nonce, L, ETA)} :
            /\ heap' = res.h
            /\ vcalls' = res.calls
       /\ vop' = [name |-> "polyvecl_uniform_eta", outs |-> << Vec("s1") >>,
                  ins |-> << Poly("seed"), nonce >>]
  /\ vpre' = heap
  /\ vret' = << >>
  /\ UNCHANGED << mode, spongeVars >>

\* s2 with the nonce L, and with one whose increments wrap around
PolyveckUniformEta ==
  /\ vop.name = "none"
  /\ \E nonce \in {L, 65534} :
       /\ \E res \in {polyveck_uniform_eta([h |-> heap, calls |-> << >>], Vec("s2"),
                                           Poly("seed"), nonce, K, ETA)} :
            /\ heap' = res.h
            /\ vcalls' = res.calls
       /\ vop' = [name |-> "polyveck_uniform_eta", outs |-> << Vec("s2") >>,
                  ins |-> << Poly("seed"), nonce >>]
  /\ vpre' = heap
  /\ vret' = << >>
  /\ UNCHANGED << mode, spongeVars >>


\* a polynomial of the matrix
PolyUniform ==
  /\ vop.name = "none"
  /\ \E nonce \in PolyNonces :
       /\ \E res \in {poly_uniform(heap, Poly("a"), Poly("rho"), nonce)} :
            heap' = res
       /\ vop' = [name |-> "poly_uniform", outs |-> << Poly("a") >>,
                  ins |-> << Poly("rho"), nonce >>]
       /\ vcalls' = << << Poly("a"), nonce >> >>
  /\ vpre' = heap
  /\ vret' = << >>
  /\ UNCHANGED << mode, spongeVars >>

(***************************************************************************)
(* poly_challenge absorbs the seed of CTILDEBYTES bytes into SHAKE256.     *)
(* The first 8 bytes of the stream are the word signs; for i = N - TAU to  *)
(* N - 1 a byte j <= i is drawn from the bytes after them, c[i] = c[j],    *)
(* c[j] = 1 - 2 * (signs & 1), signs >>= 1.  The record cur of the loop    *)
(* holds c, the block buf and the index at of its next byte, the sponge    *)
(* st, signs as its 64 bits from bit 0 on, the number of shifts done and   *)
(* the log of the steps: i, j, the bit of the word used, and c after it.   *)
(***************************************************************************)
RECURSIVE challenge_draw(_, _)
challenge_draw(cur, i) ==
  IF cur.at >= SHAKE256_RATE
  THEN LET Refill(b) == IF Len(b.out) = SHAKE256_RATE
                        THEN challenge_draw([cur EXCEPT !.buf = b.out, !.at = 0,
                                                        !.st = [s |-> b.s, pos |-> b.pos]], i)
                        ELSE cur
       IN  Refill(shake_squeezeblocks(1, cur.st.s, cur.st.pos, SHAKE256_RATE))
  ELSE IF cur.buf[cur.at + 1] > i
       THEN challenge_draw([cur EXCEPT !.at = @ + 1], i)
       ELSE cur

\* A variant of the step that leaves c[i] as it is
challenge_step_nocopy(cur, i) ==
  LET Set(d, j) ==
        [d EXCEPT !.c = [d.c EXCEPT ![j + 1] = 1 - 2 * Head(d.signs)],
                  !.at = @ + 1,
                  !.signs = Tail(@) \o << 0 >>,
                  !.shifts = @ + 1,
                  !.steps = Append(@, [i |-> i, j |-> j, bit |-> d.shifts,
                                       c |-> [d.c EXCEPT ![j + 1] = 1 - 2 * Head(d.signs)]])]
      Drawn(d) == IF d.at < SHAKE256_RATE THEN Set(d, d.buf[d.at + 1]) ELSE d
  IN  Drawn(challenge_draw(cur, i))

\* do { b = buf[pos++]; } while(b > i);  c[i] = c[b];  c[b] = 1 - 2*(signs & 1);
\* signs >>= 1;
challenge_step(cur, i) ==
  LET Swap(cf, j, sign) == [[cf EXCEPT ![i + 1] = cf[j + 1]] EXCEPT ![j + 1] = 1 - 2 * sign]
      Set(d, j) ==
        [d EXCEPT !.c = Swap(d.c, j, Head(d.signs)),
                  !.at = @ + 1,
                  !.signs = Tail(@) \o << 0 >>,
                  !.shifts = @ + 1,
                  !.steps = Append(@, [i |-> i, j |-> j, bit |-> d.shifts,
                                       c |-> Swap(d.c, j, Head(d.signs))])]
      Drawn(d) == IF d.at < SHAKE256_RATE THEN Set(d, d.buf[d.at + 1]) ELSE d
  IN  Drawn(challenge_draw(cur, i))

\* for(i = N-TAU; i < N; ++i): the steps from .. to - 1
RECURSIVE challenge_loop(_, _, _)
challenge_loop(cur, from, to) ==
  IF to - from = 1 THEN challenge_step(cur, from)
  ELSE LET mid == (from + to) \div 2
           Go(c1) == IF Len(c1.steps) > 0 THEN challenge_loop(c1, mid, to) ELSE c1
       IN  Go(challenge_loop(cur, from, mid))

\* the 64 bits of the word loaded from 8 bytes, little-endian
SignBits(bytes) == [b \in 1..64 |-> BitAt(bytes[((b - 1) \div 8) + 1], (b - 1) % 8)]

poly_challenge(h, c, seed, tau) ==
  LET Start(b) ==
        challenge_loop([c |-> ZeroPoly, buf |-> b.out, at |-> 8,
                        st |-> [s |-> b.s, pos |-> b.pos],
                        signs |-> SignBits(SubSeq(b.out, 1, 8)), shifts |-> 0,
                        steps |-> << >>], N - tau, N)
      Block(a) == Start(shake_squeezeblocks(1, a.s, a.pos, SHAKE256_RATE))
      Done(cur) == [h |-> [Alloc(h, c) EXCEPT ![c] = cur.c], steps |-> cur.steps]
  IN  Done(Block(shake_absorb_once(SHAKE256_RATE, h[seed])))

\* the challenge of the seed ctilde; vcalls holds the steps of the loop
PolyChallenge ==
  /\ vop.name = "none"
  /\ \E res \in {poly_challenge(heap, Poly("c"), Poly("ctilde"), TAU)} :
       /\ heap' = res.h
       /\ vcalls' = res.steps
  /\ vop' = [name |-> "poly_challenge", outs |-> << Poly("c") >>, ins |-> << Poly("ctilde") >>]
  /\ vpre' = heap
  /\ vret' = << >>
  /\ UNCHANGED << mode, spongeVars >>

NextSample ==
  \/ PolyUniform
  \/ PolyveclUniformGamma1
  \/ PolyUniformEta
  \/ PolyveclUniformEta
  \/ PolyveckUniformEta
  \/ PolyChallenge

SpecSample == InitSample /\ [][NextSample]_vars

\* the call that logged entry n of vcalls, and the polynomial it was for
CallNo(n) == ((n - 1) \div L) + 1
PolyNo(n) == (n - 1) % L

\* polynomial i of a call with nonce x gets the nonce (L * x + i) mod 2^16
Gamma1NoncesLogged ==
  /\ Len(vcalls) = L * Len(vret)
  /\ \A n \in 1..Len(vcalls) :
       /\ vcalls[n][1] = Elem(Vec("y"), PolyNo(n))
       /\ vcalls[n][2] = (L * vret[CallNo(n)] + PolyNo(n)) % 65536
       /\ vcalls[n][2] \in 0..65535
  /\ \A i \in 0..(L - 1) :
       /\ Len(heap[Elem(Vec("y"), i)]) = N
       /\ \A k \in 1..N : -GAMMA1 < heap[Elem(Vec("y"), i)][k] /\ heap[Elem(Vec("y"), i)][k] <= GAMMA1

\* C29 as it is stated: polyvecl_uniform_gamma1 samples polynomial i with the
\* nonce (L * nonce + i) mod 2^16, and any two distinct pairs (nonce, i) with
\* i < L give distinct nonces.
C29_Gamma1NoncesAllDistinct ==
  vop.name = "polyvecl_uniform_gamma1" =>
    /\ Gamma1NoncesLogged
    /\ \A m, n \in 1..Len(vcalls) :
         << vret[CallNo(m)], PolyNo(m) >> # << vret[CallNo(n)], PolyNo(n) >>
           => vcalls[m][2] # vcalls[n][2]

\* C29: polyvecl_uniform_gamma1 samples polynomial i with the nonce
\* (L * nonce + i) mod 2^16, and any two distinct pairs (nonce, i) with i < L
\* and L * nonce + i < 2^16 give distinct nonces.
C29_Gamma1Nonces ==
  vop.name = "polyvecl_uniform_gamma1" =>
    /\ Gamma1NoncesLogged
    /\ \A m, n \in 1..Len(vcalls) :
         (/\ << vret[CallNo(m)], PolyNo(m) >> # << vret[CallNo(n)], PolyNo(n) >>
          /\ L * vret[CallNo(m)] + PolyNo(m) < 65536
          /\ L * vret[CallNo(n)] + PolyNo(n) < 65536)
           => vcalls[m][2] # vcalls[n][2]

\* y has been sampled with the nonces 0 and 1: 2 L polynomials, 2 L nonces
C29_Witness ==
  /\ vop.name = "polyvecl_uniform_gamma1"
  /\ vret = << 0, 1 >>
  /\ Len(vcalls) = 2 * L
  /\ vcalls[L + 1][2] = L
  /\ Cardinality({vcalls[n][2] : n \in 1..Len(vcalls)}) = 2 * L
  /\ heap[Elem(Vec("y"), 0)] # vpre[Elem(Vec("y"), 0)]

\* the polynomial the nibbles of the SHAKE256 stream of input give: the
\* first N of the nibbles as far as they are in the rule's domain, mapped
EtaFrom(input) ==
  LET dom == IF ETA = 2 THEN 0..14 ELSE 0..8
      InDom(t) == t \in dom
      Image(t) == IF ETA = 2 THEN 2 - (t % 5) ELSE 4 - t
      Kept(ts) == [k \in 1..N |-> Image(ts[k])]
  IN  Kept(SelectSeq(Nibbles(shake_stream(<< >>, shake_absorb_once(SHAKE256_RATE, input),
                                          3 * SHAKE256_RATE, SHAKE256_RATE)), InDom))

\* C24: poly_uniform_eta gives N coefficients in [-ETA, ETA].  For ETA = 2
\* the nibbles accepted are 0..14 and each value of -2..2 is 2 - (nibble mod 5)
\* for exactly three of them; for ETA = 4 the nibbles accepted are 0..8 and
\* each value of -4..4 is 4 - nibble for exactly one.  polyvecl_uniform_eta
\* and polyveck_uniform_eta sample element i with nonce (nonce + i) mod 2^16.
C24_UniformEta ==
  vop.name \in {"poly_uniform_eta", "polyvecl_uniform_eta", "polyveck_uniform_eta"} =>
    /\ {t \in 0..15 : eta_accept(t, ETA)} = (IF ETA = 2 THEN 0..14 ELSE 0..8)
    /\ \A x \in (-ETA)..ETA :
         Cardinality({t \in 0..15 : eta_accept(t, ETA) /\ eta_map(t, ETA) = x})
           = (IF ETA = 2 THEN 3 ELSE 1)
    /\ \A t \in 0..15 : eta_accept(t, ETA) => eta_map(t, ETA) \in (-ETA)..ETA
    /\ Len(vcalls) = (CASE vop.name = "poly_uniform_eta" -> 1
                        [] vop.name = "polyvecl_uniform_eta" -> L
                        [] vop.name = "polyveck_uniform_eta" -> K)
    /\ \A n \in 1..Len(vcalls) :
         /\ vcalls[n] = << Elem(vop.outs[1], n - 1), (vop.ins[2] + n - 1) % 65536 >>
         /\ Len(heap[vcalls[n][1]]) = N
         /\ \A k \in 1..N : heap[vcalls[n][1]][k] \in (-ETA)..ETA
    /\ vop.name = "poly_uniform_eta" =>
         heap[Poly("e")] = EtaFrom(vpre[Poly("seed")] \o << vop.ins[2] % 256, vop.ins[2] \div 256 >>)
    /\ heap[Poly("seed")] = vpre[Poly("seed")]

\* s2 of the largest parameter set sampled from nonce 65534 on: the nonces
\* wrap around to 0 .. 5, and both ends of the range occur in the vector
C24_Witness ==
  /\ vop.name = "polyveck_uniform_eta"
  /\ mode = 5
  /\ vop.ins[2] = 65534
  /\ vcalls[2][2] = 65535
  /\ vcalls[3][2] = 0
  /\ vcalls[8][2] = 5
  /\ \E n \in 1..8, k \in 1..N : heap[vcalls[n][1]][k] = -ETA
  /\ \E n \in 1..8, k \in 1..N : heap[vcalls[n][1]][k] = ETA
  /\ heap[vcalls[1][1]] # heap[vcalls[3][1]]

\* b0 | b1 << 8 | (b2 & 0x7F) << 16, bit by bit
Candidate(b0, b1, b2) ==
  LET Bit(p) == IF p < 8 THEN BitAt(b0, p)
                ELSE IF p < 16 THEN BitAt(b1, p - 8) ELSE BitAt(b2, p - 16)
      RECURSIVE Upto(_)
      Upto(p) == IF p = 23 THEN 0 ELSE Bit(p) * 2 ^ p + Upto(p + 1)
  IN  Upto(0)

\* the candidates of the consecutive groups of three bytes of a stream
Candidates(stream) ==
  [g \in 1..(Len(stream) \div 3) |->
     Candidate(stream[3 * g - 2], stream[3 * g - 1], stream[3 * g])]

\* C23: poly_uniform(rho, nonce) writes N coefficients in [0, Q): in stream
\* order the first N candidates t = b0 | b1 << 8 | (b2 & 0x7F) << 16 with
\* t < Q of the consecutive groups of three bytes of SHAKE128(rho | nonce as
\* two little-endian bytes); block after block of the stream is used with no
\* byte skipped or used twice.
C23_PolyUniform ==
  vop.name = "poly_uniform" =>
    /\ Len(heap[Poly("a")]) = N
    /\ \A k \in 1..N : 0 <= heap[Poly("a")][k] /\ heap[Poly("a")][k] < Q
    /\ \A ts \in {Candidates(shake_stream(<< >>,
                      shake_absorb_once(SHAKE128_RATE,
                        vpre[Poly("rho")] \o << vop.ins[2] % 256, vop.ins[2] \div 256 >>),
                      5 * SHAKE128_RATE, SHAKE128_RATE))} :
         \A acc \in {SelectSeq(ts, Below_Q)} :
           /\ Len(acc) >= N
           /\ heap[Poly("a")] = SubSeq(acc, 1, N)
    /\ heap[Poly("rho")] = vpre[Poly("rho")]

\* a nonce of two non-zero bytes, and a candidate is rejected before the
\* N-th coefficient: coefficient k is not candidate k for some k
C23_Witness ==
  /\ vop.name = "poly_uniform"
  /\ vop.ins[2] = 284
  /\ \E n \in 1..SEEDBYTES : heap[Poly("rho")][n] # 0
  /\ \A ts \in {Candidates(shake_stream(<< >>,
                    shake_absorb_once(SHAKE128_RATE, heap[Poly("rho")] \o << 28, 1 >>),
                    5 * SHAKE128_RATE, SHAKE128_RATE))} :
       /\ ts[29] >= Q
       /\ heap[Poly("a")][28] = ts[28]
       /\ heap[Poly("a")][29] = ts[30]
       /\ heap[Poly("a")][N] = ts[N + 1]

\* the positions of the non-zero coefficients of a polynomial, from 0
NonZero(cf) == {k \in 0..(N - 1) : cf[k + 1] # 0}

\* C21: poly_challenge writes a polynomial with exactly TAU coefficients in
\* {-1, 1} and the others 0.  The step for index i (from N - TAU to N - 1)
\* draws a byte j <= i and sets c[i] := c[j], c[j] := 1 or -1; after it
\* i - (N - TAU) + 1 coefficients are non-zero, all at positions <= i and
\* each 1 or -1.  Every step uses a bit of its own of the 64-bit word signs,
\* and TAU <= 64.
C21_Challenge ==
  vop.name = "poly_challenge" =>
    /\ TAU <= 64
    /\ Len(vcalls) = TAU
    /\ \A t \in 1..Len(vcalls) :
         /\ vcalls[t].i = N - TAU + t - 1
         /\ 0 <= vcalls[t].j /\ vcalls[t].j <= vcalls[t].i
         /\ Cardinality(NonZero(vcalls[t].c)) = vcalls[t].i - (N - TAU) + 1
         /\ \A k \in NonZero(vcalls[t].c) : k <= vcalls[t].i /\ vcalls[t].c[k + 1] \in {-1, 1}
         /\ vcalls[t].c[vcalls[t].j + 1] \in {-1, 1}
         /\ vcalls[t].bit \in 0..63
         /\ \A u \in 1..Len(vcalls) : u # t => vcalls[u].bit # vcalls[t].bit
    /\ heap[Poly("c")] = vcalls[TAU].c
    /\ Len(heap[Poly("c")]) = N
    /\ Cardinality(NonZero(heap[Poly("c")])) = TAU
    /\ \A k \in 0..(N - 1) : heap[Poly("c")][k + 1] \in {-1, 0, 1}
    /\ heap[Poly("ctilde")] = vpre[Poly("ctilde")]

\* the challenge of the largest TAU: a step has moved a non-zero coefficient
\* to position i, another one has drawn j = i, and both signs occur
C21_Witness ==
  /\ vop.name = "poly_challenge"
  /\ TAU = 60
  /\ Len(vcalls) = 60
  /\ \E t \in 2..60 : vcalls[t].j < vcalls[t].i /\ vcalls[t - 1].c[vcalls[t].j + 1] # 0
  /\ \E k \in 0..(N - 1) : heap[Poly("c")][k + 1] = 1
  /\ \E k \in 0..(N - 1) : heap[Poly("c")][k + 1] = -1
  /\ \E t \in 1..60 : vcalls[t].bit = 59

(***************************************************************************)
(* The NTT.  zetas[k] is ROOT_OF_UNITY to the power of the 8 bits of k     *)
(* reversed, in Montgomery form (times 2^32 modulo Q), as the              *)
(* representative of least magnitude.  The forward transform makes its     *)
(* 8 * 128 butterflies in the order of the loops over len, start and j;    *)
(* butterfly m is the one of layer m / 128.  The inverse transform runs    *)
(* the layers from len = 1 up with the zetas negated and in reverse order, *)
(* and multiplies every coefficient by F = 256^-1 * 2^32 mod Q through     *)
(* montgomery_reduce, that is by F in Montgomery form.                     *)
(***************************************************************************)
ROOT_OF_UNITY == 1753

\* 2^32 mod Q
MONT == 4193792

RECURSIVE PowModQ(_, _)
PowModQ(x, e) ==
  IF e = 0 THEN 1
  ELSE LET Odd(y) == IF y >= 0 /\ e % 2 = 1 THEN MulModQ(x, y) ELSE y
           Square(y) == IF y >= 0 THEN Odd(MulModQ(y, y)) ELSE y
       IN  Square(PowModQ(x, e \div 2))

Brv8(k) ==
  LET RECURSIVE Upto(_)
      Upto(b) == IF b = 8 THEN 0 ELSE BitAt(k, b) * 2 ^ (7 - b) + Upto(b + 1)
  IN  Upto(0)

Centered(x) == IF x > (Q - 1) \div 2 THEN x - Q ELSE x

zetas == SubSeq([k \in 1..(N - 1) |-> Centered(MulModQ(PowModQ(ROOT_OF_UNITY, Brv8(k)), MONT))],
                1, N - 1)

\* F = (256^-1 mod Q) * 2^32 mod Q; 256 * 8347681 = 255 * Q + 1
F == MulModQ((255 * Q + 1) \div 256, MONT)

\* F in Montgomery form, the factor handed to montgomery_reduce
f_mont == MulModQ(F, MONT)

\* t = montgomery_reduce(zeta * a[j + len]); a[j + len] = a[j] - t; a[j] = a[j] + t
ntt_butterfly(a, m) ==
  LET len == 2 ^ (7 - (m \div 128))
      block == (m % 128) \div len
      j == block * 2 * len + (m % len)
      k == 2 ^ (m \div 128) + block
      Set(t) == [[a EXCEPT ![j + len + 1] = a[j + 1] - t] EXCEPT ![j + 1] = a[j + 1] + t]
  IN  Set(montgomery_reduce(Mul64(zetas[k], a[j + len + 1])))

\* the butterflies from .. to - 1
RECURSIVE ntt_loop(_, _, _)
ntt_loop(a, from, to) ==
  IF to - from = 1 THEN ntt_butterfly(a, from)
  ELSE LET mid == (from + to) \div 2
           Go(a1) == IF Len(a1) = N THEN ntt_loop(a1, mid, to) ELSE a1
       IN  Go(ntt_loop(a, from, mid))

ntt(a) == ntt_loop(a, 0, 8 * 128)

\* t = a[j]; a[j] = t + a[j + len]; a[j + len] = t - a[j + len];
\* a[j + len] = montgomery_reduce(zeta * a[j + len]);  zeta = -zetas[--k]
invntt_butterfly(a, m) ==
  LET len == 2 ^ (m \div 128)
      block == (m % 128) \div len
      j == block * 2 * len + (m % len)
      k == 2 ^ (8 - (m \div 128)) - 1 - block
      Set(t, u) == [[a EXCEPT ![j + 1] = t + u]
                      EXCEPT ![j + len + 1] = montgomery_reduce(Mul64(-zetas[k], t - u))]
  IN  Set(a[j + 1], a[j + len + 1])

\* a[j] = montgomery_reduce(f * a[j])
invntt_scale(a, j) == [a EXCEPT ![j + 1] = montgomery_reduce(Mul64(f_mont, a[j + 1]))]

\* the butterflies, and after them the N multiplications, from .. to - 1
RECURSIVE invntt_loop(_, _, _)
invntt_loop(a, from, to) ==
  IF to - from = 1
  THEN IF from < 8 * 128 THEN invntt_butterfly(a, from) ELSE invntt_scale(a, from - 8 * 128)
  ELSE LET mid == (from + to) \div 2
           Go(a1) == IF Len(a1) = N THEN invntt_loop(a1, mid, to) ELSE a1
       IN  Go(invntt_loop(a, from, mid))

invntt_tomont(a) == invntt_loop(a, 0, 8 * 128 + N)

poly_ntt(h, a) == [h EXCEPT ![a] = ntt(h[a])]

poly_invntt_tomont(h, a) == [h EXCEPT ![a] = invntt_tomont(h[a])]

\* for(i = 0; i < L; ++i) poly_ntt(&v->vec[i]);
polyvecl_ntt(h, v, l) ==
  LET RECURSIVE For(_, _)
      Step(h2, i) == IF Len(h2[Elem(v, i)]) = N THEN For(h2, i + 1) ELSE h2
      For(h1, i) == IF i = l THEN h1 ELSE Step(poly_ntt(h1, Elem(v, i)), i)
  IN  For(h, 0)

\* A variant of the inverse transform of a vector that leaves out element 0
polyvecl_invntt_tomont_from1(h, v, l) ==
  LET RECURSIVE For(_, _)
      Step(h2, i) == IF Len(h2[Elem(v, i)]) = N THEN For(h2, i + 1) ELSE h2
      For(h1, i) == IF i = l THEN h1 ELSE Step(poly_invntt_tomont(h1, Elem(v, i)), i)
  IN  For(h, 1)

\* for(i = 0; i < L; ++i) poly_invntt_tomont(&v->vec[i]);
polyvecl_invntt_tomont(h, v, l) ==
  LET RECURSIVE For(_, _)
      Step(h2, i) == IF Len(h2[Elem(v, i)]) = N THEN For(h2, i + 1) ELSE h2
      For(h1, i) == IF i = l THEN h1 ELSE Step(poly_invntt_tomont(h1, Elem(v, i)), i)
  IN  For(h, 0)

\* for(i = 0; i < K; ++i) poly_ntt(&v->vec[i]);
polyveck_ntt(h, v, k) ==
  LET RECURSIVE For(_, _)
      Step(h2, i) == IF Len(h2[Elem(v, i)]) = N THEN For(h2, i + 1) ELSE h2
      For(h1, i) == IF i = k THEN h1 ELSE Step(poly_ntt(h1, Elem(v, i)), i)
  IN  For(h, 0)

\* for(i = 0; i < K; ++i) poly_invntt_tomont(&v->vec[i]);
polyveck_invntt_tomont(h, v, k) ==
  LET RECURSIVE For(_, _)
      Step(h2, i) == IF Len(h2[Elem(v, i)]) = N THEN For(h2, i + 1) ELSE h2
      For(h1, i) == IF i = k THEN h1 ELSE Step(poly_invntt_tomont(h1, Elem(v, i)), i)
  IN  For(h, 0)

(***************************************************************************)
(* SpecNtt: a polynomial or a vector with coefficients of magnitude below  *)
(* Q / 2 is transformed, and the result transformed back.  vret keeps the  *)
(* caller's copy of the objects as they were before the forward transform. *)
(***************************************************************************)
MaxPolys == 16

\* Sample polynomials with |a[i]| < Q / 2: all coefficients the greatest or
\* the least value, the two alternating, one coefficient only, and values
\* spread over the range
CenteredPoly(sd) ==
  LET top == (Q - 1) \div 2
  IN  [n \in 1..N |->
         CASE sd = 0 -> top
           [] sd = 1 -> -top
           [] sd = 2 -> IF n % 2 = 0 THEN top ELSE -top
           [] sd = 3 -> IF n = 1 THEN top ELSE 0
           [] sd = 4 -> IF n = N THEN -1 ELSE 0
           [] OTHER  -> ((sd * 7919 + n * n * 4099 + n * 1000003) % Q) - top]

NttHeap ==
  [a \in {Elem(Vec("yl"), i) : i \in 0..(L - 1)} \cup {Elem(Vec("yk"), i) : i \in 0..(K - 1)} |->
     CenteredPoly(5 + a[3] + (IF a[1] = "yl" THEN 0 ELSE L))]

InitNtt ==
  /\ SpongeAt(SHAKE128_RATE)
  /\ mode \in Modes
  /\ heap = NttHeap
  /\ vop = NoCall
  /\ vpre = << >>
  /\ vcalls = << >>
  /\ vret = << >>

PolyNtt ==
  /\ vop.name = "none"
  /\ \E sd \in 0..(MaxPolys - 1) :
       /\ \E res \in {poly_ntt((Poly("p") :> CenteredPoly(sd)) @@ heap, Poly("p"))} :
            heap' = res
       /\ vret' = (Poly("p") :> CenteredPoly(sd)) @@ heap
  /\ vop' = [name |-> "poly_ntt", outs |-> << Poly("p") >>, ins |-> << Poly("p") >>]
  /\ vpre' = heap
  /\ vcalls' = << >>
  /\ UNCHANGED << mode, spongeVars >>

PolyInvnttTomont ==
  /\ vop.name = "poly_ntt"
  /\ \E res \in {poly_invntt_tomont(heap, Poly("p"))} : heap' = res
  /\ vop' = [name |-> "poly_invntt_tomont", outs |-> << Poly("p") >>, ins |-> << Poly("p") >>]
  /\ vpre' = heap
  /\ UNCHANGED << vcalls, vret, mode, spongeVars >>

PolyveclNtt ==
  /\ vop.name = "none"
  /\ \E res \in {polyvecl_ntt(heap, Vec("yl"), L)} : heap' = res
  /\ vop' = [name |-> "polyvecl_ntt", outs |-> << Vec("yl") >>, ins |-> << Vec("yl") >>]
  /\ vpre' = heap
  /\ vret' = heap
  /\ vcalls' = << >>
  /\ UNCHANGED << mode, spongeVars >>

PolyveclInvnttTomont ==
  /\ vop.name = "polyvecl_ntt"
  /\ \E res \in {polyvecl_invntt_tomont(heap, Vec("yl"), L)} : heap' = res
  /\ vop' = [name |-> "polyvecl_invntt_tomont", outs |-> << Vec("yl") >>, ins |-> << Vec("yl") >>]
  /\ vpre' = heap
  /\ UNCHANGED << vcalls, vret, mode, spongeVars >>

PolyveckNtt ==
  /\ vop.name = "none"
  /\ \E res \in {polyveck_ntt(heap, Vec("yk"), K)} : heap' = res
  /\ vop' = [name |-> "polyveck_ntt", outs |-> << Vec("yk") >>, ins |-> << Vec("yk") >>]
  /\ vpre' = heap
  /\ vret' = heap
  /\ vcalls' = << >>
  /\ UNCHANGED << mode, spongeVars >>

PolyveckInvnttTomont ==
  /\ vop.name = "polyveck_ntt"
  /\ \E res \in {polyveck_invntt_tomont(heap, Vec("yk"), K)} : heap' = res
  /\ vop' = [name |-> "polyveck_invntt_tomont", outs |-> << Vec("yk") >>, ins |-> << Vec("yk") >>]
  /\ vpre' = heap
  /\ UNCHANGED << vcalls, vret, mode, spongeVars >>

NextNtt ==
  \/ PolyNtt
  \/ PolyInvnttTomont
  \/ PolyveclNtt
  \/ PolyveclInvnttTomont
  \/ PolyveckNtt
  \/ PolyveckInvnttTomont

SpecNtt == InitNtt /\ [][NextNtt]_vars

\* the objects a call has transformed
Transformed ==
  CASE vop.name \in {"poly_ntt", "poly_invntt_tomont"} -> {Poly("p")}
    [] vop.name \in {"polyvecl_ntt", "polyvecl_invntt_tomont"} ->
         {Elem(Vec("yl"), i) : i \in 0..(L - 1)}
    [] vop.name \in {"polyveck_ntt", "polyveck_invntt_tomont"} ->
         {Elem(Vec("yk"), i) : i \in 0..(K - 1)}
    [] OTHER -> {}

\* C25: for a polynomial a with |a[i]| < Q / 2, the forward NTT followed by
\* invntt_tomont gives coefficient by coefficient a value congruent modulo Q
\* to a[i] * 2^32; polyvecl_ntt and polyveck_ntt followed by
\* polyvecl_invntt_tomont and polyveck_invntt_tomont do so for each element
\* of the vector, and transform nothing else.
C25_NttRoundTrip ==
  /\ vop.name \in {"poly_ntt", "polyvecl_ntt", "polyveck_ntt"} =>
       /\ \A a \in Transformed : Len(heap[a]) = N
       /\ \A a \in (DOMAIN heap) \ Transformed : heap[a] = vret[a]
  /\ vop.name \in {"poly_invntt_tomont", "polyvecl_invntt_tomont", "polyveck_invntt_tomont"} =>
       /\ MONT = MulModQ(65536, 65536)
       /\ \A a \in Transformed :
            /\ \A n \in 1..N : 2 * vret[a][n] < Q /\ -2 * vret[a][n] < Q
            /\ Len(heap[a]) = N
            /\ \A n \in 1..N : heap[a][n] % Q = MulModQ(vret[a][n] % Q, MONT)
       /\ \A a \in (DOMAIN heap) \ Transformed : heap[a] = vret[a]

\* the longest vector transformed and transformed back, with coefficients of
\* both signs, none of them unchanged by the factor
C25_Witness ==
  /\ vop.name = "polyveck_invntt_tomont"
  /\ mode = 5
  /\ \E n \in 1..N : vret[Elem(Vec("yk"), 7)][n] > 4000000
  /\ \E n \in 1..N : vret[Elem(Vec("yk"), 7)][n] < -4000000
  /\ heap[Elem(Vec("yk"), 7)] # vret[Elem(Vec("yk"), 7)]
  /\ vpre[Elem(Vec("yk"), 0)] # vret[Elem(Vec("yk"), 0)]
  /\ \A n \in 1..N : (heap[Elem(Vec("yk"), 7)][n] - vret[Elem(Vec("yk"), 7)][n]) % Q # 0
=============================================================================
